---- MODULE Spec2Model ----
(***************************************************************************)
(* A model of ext/quicsilver/quicsilver.c: the bridge between the MsQuic   *)
(* engine (custom execution: the host thread drives the engine) and the    *)
(* Ruby host.  The state is the extension's process-wide globals, the      *)
(* Context Records it allocates, the engine's view of every handle, the    *)
(* completions waiting on the readiness queue, and what the Dispatcher     *)
(* (dispatch_to_ruby) has handed to the host.                              *)
(***************************************************************************)
EXTENDS Integers, Sequences, FiniteSets, TLC

(***************************************************************************)
(* Bounds of the model.                                                    *)
(***************************************************************************)
\* how many kqueue descriptors / execution contexts the process may hold
MaxFds == 2
\* connection handles the engine hands out (application + accepted)
MaxConns == 2
\* stream handles the engine hands out
MaxStreams == 1
\* completions that may wait on the readiness queue at once
MaxReady == 2
\* events the engine raises in one behaviour
MaxRaised == 3
\* close_connection_handle calls per connection descriptor
MaxCloses == 2
\* steps of one wait_for_connection call that the model follows
MaxWaitSteps == 3
\* host threads that call poll
MaxThreads == 2
\* send_stream calls per stream
MaxSends == 2

(***************************************************************************)
(* Program constants.                                                      *)
(***************************************************************************)
NULL == 0
NoEventQ == -1
SizeofHQUIC == 8
PollMaxEvents == 64
InlineMaxEvents == 8
SleepInterval == 10
DefaultWaitMs == 100
INT_MAX == 2147483647
Qnil == 0

VARIABLES
    \* the extension's globals (quicsilver.c:12-19)
    MsQuic, EventQ, ExecContext, Registration,
    \* what the engine and the OS hold for the process
    apiRefs, openFds, liveExecs, liveRegs,
    \* the last API call and what it returned: [op, value, n], n the count
    \* poll returns
    ret,
    \* what the last quicsilver_open acquired and released, in order
    acquired, released,
    \* the engine's view of every connection, stream and listener handle
    conn, strm, lst,
    \* the Context Records: ConnectionContext, StreamContext, ListenerContext
    cctx, sctx, lctx,
    \* per ConnectionContext: the GC registrations of &ctx->client_obj now in
    \* force, and the calls of rb_gc_unregister_address and free made on it
    gc,
    \* every free of a Context Record so far, as [kind, id, h]: h is the state
    \* the record's engine handle was in when free was called
    destroyed,
    \* the completions waiting on the readiness queue, oldest first, and how
    \* many events the engine has raised so far
    ready, raised,
    \* what dispatch_to_ruby has delivered to the host, oldest first
    log,
    \* the callback invocations that returned a failure status to the engine,
    \* as [kind, type, oom, status]
    refused,
    \* the wait_for_connection call in progress
    wait,
    \* per host thread, the quicsilver_poll call it is in: where it is and
    \* the locals of the call (wait_ms, actual_wait, args)
    drive

bridgeVars == <<MsQuic, EventQ, ExecContext, Registration>>
engineBridgeVars == <<apiRefs, openFds, liveExecs, liveRegs>>
callVars == <<ret, acquired, released>>
handleVars == <<conn, strm, lst>>
ctxVars == <<cctx, sctx, lctx, gc, destroyed>>
eventVars == <<ready, raised, log, refused>>
vars == <<bridgeVars, engineBridgeVars, callVars, handleVars, ctxVars, eventVars, wait, drive>>

Ret(op, value, n) == [op |-> op, value |-> value, n |-> n]

Reverse(s) == [i \in 1..Len(s) |-> s[Len(s) + 1 - i]]

\* the lowest identifier of 1..MaxFds not in use (kqueue() returns the lowest
\* free descriptor; the engine's objects are named the same way)
Fresh(used) == CHOOSE f \in 1..MaxFds : f \notin used /\ \A g \in 1..(f - 1) : g \in used

Conns == 1..MaxConns
Streams == 1..MaxStreams

\* Ruby values an application may pass as client_obj: 1 is an ordinary object
\* (T_OBJECT), 2 is a value of another kind (a String, say)
Owners == {1, 2}
RubyType(v) == IF v = 1 THEN "T_OBJECT" ELSE "T_STRING"

\* HQUIC handles and context pointers are addresses; each handle and each
\* record has its own
ConnHandle(c) == 4096 + 16 * c
ConnCtxPtr(c) == 8192 + 16 * c
StreamHandle(s) == 12288 + 16 * s
StreamCtxPtr(s) == 16384 + 16 * s
ListenerHandle == 20480
ListenerCtxPtr == 24576
ConnOfHandle(h) == (h - 4096) \div 16
ConnOfCtxPtr(p) == (p - 8192) \div 16
\* the QUIC stream identifier GetParam(QUIC_PARAM_STREAM_ID) reports
StreamId(s) == 4 * (s - 1)

QUIC_STATUS_SUCCESS == 0

\* context: the pointer the engine holds as the context of the handle's
\* callback (ConnectionOpen, SetCallbackHandler), NULL when it holds none
NoConn == [h |-> "none", origin |-> "none", phase |-> "idle", context |-> NULL]
\* rx: the RECEIVE events the engine has passed to the stream's callback,
\* as [bytes, fin], bytes being all the bytes of the event's buffers; seen:
\* the other events it has passed to the callback, as [type, code]
NoStream ==
    [h |-> "none", conn |-> 0, origin |-> "none", phase |-> "idle", cb |-> FALSE,
     rx |-> <<>>, seen |-> <<>>, tx |-> <<>>]
NoListener == [h |-> "none", started |-> FALSE]
NoConnCtx ==
    [alloc |-> "none", connected |-> 0, failed |-> 0, error_status |-> 0,
     error_code |-> 0, client_obj |-> Qnil]
NoStreamCtx ==
    [alloc |-> "none", connection |-> NULL, connection_ctx |-> NULL,
     client_obj |-> Qnil, started |-> 0, shutdown |-> 0, error_status |-> 0]
NoListenerCtx ==
    [alloc |-> "none", started |-> 0, stopped |-> 0, failed |-> 0,
     error_status |-> 0, Configuration |-> NULL]
NoResult == [kind |-> "none", status |-> 0, code |-> 0]
\* pc: where the call is; elapsed: the C variable; over: the last addition to
\* elapsed overflowed and the build carried on with the exact sum; drives:
\* poll_inline calls made; steps: steps of the call the model has followed
NoWait ==
    [pc |-> "idle", ctx |-> NULL, timeout |-> 0, elapsed |-> 0, over |-> FALSE,
     drives |-> 0, steps |-> 0, result |-> NoResult]

Threads == 1..MaxThreads

\* a uint32_t as its two 16-bit halves
U32(hi, lo) == [hi |-> hi, lo |-> lo]
UINT32_MAX == U32(65535, 65535)

NoArgs == [tv_sec |-> 0, tv_nsec |-> 0, count |-> 0, events |-> <<>>]
NoDrive ==
    [t \in Threads |-> [pc |-> "idle", wait_ms |-> U32(0, 0), actual_wait |-> 0,
                        args |-> NoArgs]]

\* the process runs until a handler dereferences a null pointer
Running == ret.value # "SIGSEGV"

OpenFailures == {"none", "MsQuicOpenVersion", "kqueue", "ExecutionCreate", "RegistrationOpen"}

Init ==
    /\ MsQuic = NULL
    /\ EventQ = NoEventQ
    /\ ExecContext = NULL
    /\ Registration = NULL
    /\ apiRefs = 0
    /\ openFds = {}
    /\ liveExecs = {}
    /\ liveRegs = {}
    /\ ret = Ret("none", "none", 0)
    /\ acquired = <<>>
    /\ released = <<>>
    /\ conn = [c \in Conns |-> NoConn]
    /\ strm = [s \in Streams |-> NoStream]
    /\ lst = NoListener
    /\ cctx = [c \in Conns |-> NoConnCtx]
    /\ sctx = [s \in Streams |-> NoStreamCtx]
    /\ lctx = NoListenerCtx
    /\ gc = [c \in Conns |-> [regs |-> 0, unregs |-> 0, frees |-> 0]]
    /\ ready = <<>>
    /\ raised = 0
    /\ log = <<>>
    /\ wait = NoWait
    /\ drive = NoDrive
    /\ destroyed = {}
    /\ refused = {}

(***************************************************************************)
(* The process-wide state as one record, so that a handler is the          *)
(* composition of the engine and OS calls it makes, in the order it makes  *)
(* them.                                                                   *)
(***************************************************************************)
BridgeState ==
    [MsQuic |-> MsQuic, EventQ |-> EventQ, ExecContext |-> ExecContext,
     Registration |-> Registration, apiRefs |-> apiRefs, openFds |-> openFds,
     liveExecs |-> liveExecs, liveRegs |-> liveRegs,
     acquired |-> <<>>, released |-> <<>>, value |-> "none"]

\* MsQuicOpenVersion(2, &MsQuic) succeeding
MsQuicOpenVersion(B) ==
    [B EXCEPT !.MsQuic = 1, !.apiRefs = @ + 1, !.acquired = Append(@, "api")]

\* MsQuicClose(MsQuic); MsQuic = NULL
MsQuicCloseAndClear(B) ==
    [B EXCEPT !.MsQuic = NULL, !.apiRefs = @ - 1, !.released = Append(@, "api")]

\* EventQ = kqueue() succeeding
KqueueCreate(B) ==
    [B EXCEPT !.EventQ = Fresh(B.openFds), !.openFds = @ \cup {Fresh(B.openFds)},
              !.acquired = Append(@, "eventq")]

\* close(EventQ); EventQ = -1
KqueueCloseAndClear(B) ==
    [B EXCEPT !.EventQ = NoEventQ, !.openFds = @ \ {B.EventQ},
              !.released = Append(@, "eventq")]

\* MsQuic->ExecutionCreate(..., &ExecContext) succeeding
ExecutionCreate(B) ==
    [B EXCEPT !.ExecContext = Fresh(B.liveExecs),
              !.liveExecs = @ \cup {Fresh(B.liveExecs)},
              !.acquired = Append(@, "exec")]

\* MsQuic->ExecutionDelete(1, &ExecContext); ExecContext = NULL
ExecutionDeleteAndClear(B) ==
    [B EXCEPT !.ExecContext = NULL, !.liveExecs = @ \ {B.ExecContext},
              !.released = Append(@, "exec")]

\* MsQuic->RegistrationOpen(&RegConfig, &Registration) succeeding
RegistrationOpen(B) ==
    [B EXCEPT !.Registration = Fresh(B.liveRegs),
              !.liveRegs = @ \cup {Fresh(B.liveRegs)},
              !.acquired = Append(@, "reg")]

\* MsQuic->RegistrationClose(Registration); Registration = NULL
RegistrationCloseAndClear(B) ==
    [B EXCEPT !.Registration = NULL, !.liveRegs = @ \ {B.Registration},
              !.released = Append(@, "reg")]

Returns(B, v) == [B EXCEPT !.value = v]

\* the unwinding of quicsilver_open when kqueue() fails (lines 355-360);
\* the failed kqueue() has stored -1 in EventQ
OpenUnwindKqueue(B) ==
    MsQuicCloseAndClear([B EXCEPT !.EventQ = NoEventQ])

\* ... when ExecutionCreate fails (lines 370-377)
OpenUnwindExecutionCreate(B) ==
    MsQuicCloseAndClear(KqueueCloseAndClear(B))

\* ... when RegistrationOpen fails (lines 381-390)
OpenUnwindRegistrationOpen(B) ==
    MsQuicCloseAndClear(KqueueCloseAndClear(ExecutionDeleteAndClear(B)))

\* quicsilver_open without its guard: every call initializes again
AlreadyInitialized_Never(B) == FALSE

\* the guard of quicsilver_open (lines 340-343)
AlreadyInitialized(B) == B.MsQuic # NULL

(***************************************************************************)
(* quicsilver_open.  fail names the step the engine or the OS fails.       *)
(***************************************************************************)
quicsilver_open(B, fail) ==
    IF AlreadyInitialized(B) THEN Returns(B, "Qtrue")
    ELSE IF fail = "MsQuicOpenVersion" THEN Returns(B, "raise")
    ELSE LET b1 == MsQuicOpenVersion(B) IN
    IF fail = "kqueue" THEN Returns(OpenUnwindKqueue(b1), "raise")
    ELSE LET b2 == KqueueCreate(b1) IN
    IF fail = "ExecutionCreate" THEN Returns(OpenUnwindExecutionCreate(b2), "raise")
    ELSE LET b3 == ExecutionCreate(b2) IN
    IF fail = "RegistrationOpen" THEN Returns(OpenUnwindRegistrationOpen(b3), "raise")
    ELSE Returns(RegistrationOpen(b3), "Qtrue")

\* the process-wide variables take the values of record B
SetBridge(B, op) ==
    /\ MsQuic' = B.MsQuic
    /\ EventQ' = B.EventQ
    /\ ExecContext' = B.ExecContext
    /\ Registration' = B.Registration
    /\ apiRefs' = B.apiRefs
    /\ openFds' = B.openFds
    /\ liveExecs' = B.liveExecs
    /\ liveRegs' = B.liveRegs
    /\ acquired' = B.acquired
    /\ released' = B.released
    /\ ret' = Ret(op, B.value, 0)

otherVars == <<handleVars, ctxVars, eventVars, wait, drive>>

OpenIn(fails) ==
    \E fail \in fails :
        /\ Running
        /\ AlreadyInitialized(BridgeState)
           \/ (Cardinality(openFds) < MaxFds /\ Cardinality(liveExecs) < MaxFds)
        /\ SetBridge(quicsilver_open(BridgeState, fail), "open")
        /\ UNCHANGED otherVars

(***************************************************************************)
(* quicsilver_close: RegistrationClose, MsQuicClose.  The execution        *)
(* context and the readiness queue are not touched.                        *)
(***************************************************************************)
quicsilver_close(B) ==
    IF B.MsQuic # NULL
    THEN LET b1 == IF B.Registration # NULL THEN RegistrationCloseAndClear(B) ELSE B
         IN Returns(MsQuicCloseAndClear(b1), "Qnil")
    ELSE Returns(B, "Qnil")

\* RegistrationClose returns once every child handle is closed
NoOpenHandles ==
    /\ \A c \in Conns : conn[c].h \notin {"open", "pending"}
    /\ \A s \in Streams : strm[s].h # "open"
    /\ lst.h # "open"

Close ==
    /\ Running
    /\ NoOpenHandles
    /\ SetBridge(quicsilver_close(BridgeState), "close")
    /\ UNCHANGED otherVars

(***************************************************************************)
(* Everything a native callback or an engine call made inside a handler    *)
(* may change, as one record: a handler is the composition of its steps.   *)
(***************************************************************************)
Store ==
    [conn |-> conn, strm |-> strm, lst |-> lst, cctx |-> cctx, sctx |-> sctx,
     lctx |-> lctx, gc |-> gc, destroyed |-> destroyed, ready |-> ready,
     raised |-> raised, log |-> log, refused |-> refused, value |-> "none", n |-> 0]

SetStore(ST) ==
    /\ conn' = ST.conn
    /\ strm' = ST.strm
    /\ lst' = ST.lst
    /\ cctx' = ST.cctx
    /\ sctx' = ST.sctx
    /\ lctx' = ST.lctx
    /\ gc' = ST.gc
    /\ destroyed' = ST.destroyed
    /\ ready' = ST.ready
    /\ raised' = ST.raised
    /\ log' = ST.log
    /\ refused' = ST.refused

\* free(ctx) of the Context Record of handle id is called
Destroy(ST, kind, id) ==
    [ST EXCEPT !.destroyed = @ \cup
        {[kind |-> kind, id |-> id,
          h |-> IF kind = "conn" THEN ST.conn[id].h
                ELSE IF kind = "stream" THEN ST.strm[id].h
                ELSE ST.lst.h]}]

\* the bytes memcpy reads from an 8-byte little-endian word
Pow256(i) == IF i = 0 THEN 1 ELSE IF i = 1 THEN 256 ELSE IF i = 2 THEN 65536 ELSE 16777216
WordBytes(n) ==
    [i \in 1..SizeofHQUIC |-> IF i <= 4 THEN (n \div Pow256(i - 1)) % 256 ELSE 0]

\* an engine event: which handle it is for, its type and its parameters
Ev(kind, id, type) ==
    [kind |-> kind, id |-> id, type |-> type, status |-> 0, code |-> 0,
     bufs |-> <<>>, fin |-> FALSE, oom |-> FALSE, fail |-> FALSE, arg |-> 0, seq |-> 0]

\* rb_class_real(CLASS_OF(Quicsilver::Server)): the host defines Server as a class
ServerClassReal == "Class"

(***************************************************************************)
(* dispatch_to_ruby (lines 54-81).  The host's handlers are outside this   *)
(* file: a delivery is recorded in log.  by is the engine event whose      *)
(* callback dispatches; stale records whether a Context Record the event   *)
(* is routed through had been freed when it was dispatched, pinned whether *)
(* the owner it is delivered to was registered with the collector then.    *)
(***************************************************************************)
Delivery(ST, dest, owner, connection, connection_ctx, event_type, stream_id, data, by) ==
    [dest |-> dest, owner |-> owner,
     desc |-> IF dest = "server" THEN <<connection, connection_ctx>> ELSE <<>>,
     stream_id |-> stream_id, type |-> event_type, data |-> data,
     kind |-> by.kind, id |-> by.id, seq |-> by.seq,
     pinned |-> \/ owner = Qnil
                \/ /\ connection_ctx # NULL
                   /\ ST.gc[ConnOfCtxPtr(connection_ctx)].regs > 0,
     stale |-> \/ /\ connection_ctx # NULL
                  /\ ST.cctx[ConnOfCtxPtr(connection_ctx)].alloc = "freed"
               \/ /\ by.kind = "stream"
                  /\ ST.sctx[by.id].alloc = "freed"]

\* a dispatcher that calls the owner's handler without looking at its kind
dispatch_to_ruby_Unchecked(ST, connection, connection_ctx, client_obj, event_type, stream_id, data, by) ==
    [ST EXCEPT !.log = Append(@, Delivery(ST, IF client_obj = Qnil THEN "server" ELSE "owner",
                           client_obj, connection, connection_ctx, event_type,
                           stream_id, data, by))]

\* a dispatcher that hands every event to the server handler as well
dispatch_to_ruby_Both(ST, connection, connection_ctx, client_obj, event_type, stream_id, data, by) ==
    LET st == [ST EXCEPT !.log = Append(@, Delivery(ST, "server", client_obj, connection,
                                connection_ctx, event_type, stream_id, data, by))]
    IN IF client_obj # Qnil /\ RubyType(client_obj) = "T_OBJECT"
       THEN [st EXCEPT !.log = Append(@, Delivery(ST, "owner", client_obj, connection,
                                connection_ctx, event_type, stream_id, data, by))]
       ELSE st

dispatch_to_ruby(ST, connection, connection_ctx, client_obj, event_type, stream_id, data, by) ==
    IF client_obj = Qnil
    THEN \* server event
         IF ServerClassReal = "Class"
         THEN [ST EXCEPT !.log = Append(@, Delivery(ST, "server", Qnil, connection,
                                connection_ctx, event_type, stream_id, data, by))]
         ELSE ST
    ELSE \* client event
         IF RubyType(client_obj) = "T_OBJECT"
         THEN [ST EXCEPT !.log = Append(@, Delivery(ST, "owner", client_obj, connection,
                                connection_ctx, event_type, stream_id, data, by))]
         ELSE ST

(***************************************************************************)
(* StreamCallback (lines 155-224) on stream s with callback context        *)
(* Context (the stream's StreamContext, or NULL).                          *)
(***************************************************************************)
StreamReceive(ST, s, Event) ==
    LET ctx == ST.sctx[s] IN
    IF Len(Event.bufs) > 0
    THEN LET buffer == Event.bufs[1] IN
         IF Event.fin
         THEN \* combined = malloc(sizeof(HQUIC) + buffer->Length)
              IF ~Event.oom
              THEN dispatch_to_ruby(ST, ctx.connection, ctx.connection_ctx, ctx.client_obj,
                       "RECEIVE_FIN", StreamId(s), WordBytes(StreamHandle(s)) \o buffer, Event)
              ELSE ST
         ELSE dispatch_to_ruby(ST, ctx.connection, ctx.connection_ctx, ctx.client_obj,
                       "RECEIVE", StreamId(s), buffer, Event)
    ELSE ST

\* a stream callback that leaves the send buffer to the caller of send
StreamCallback_KeepsBuffer(ST, s, Context, Event) ==
    IF Event.type = "SHUTDOWN_COMPLETE" THEN [ST EXCEPT !.sctx[s].shutdown = 1] ELSE ST

\* a stream callback that does not record SHUTDOWN_COMPLETE
StreamCallback_Unlatched(ST, s, Context, Event) ==
    IF Event.type = "RECEIVE" THEN StreamReceive(ST, s, Event)
    ELSE IF Event.type = "PEER_SEND_ABORTED"
    THEN dispatch_to_ruby(ST, ST.sctx[s].connection, ST.sctx[s].connection_ctx,
             ST.sctx[s].client_obj, "STREAM_RESET", StreamId(s), WordBytes(Event.code), Event)
    ELSE ST

StreamCallback(ST, s, Context, Event) ==
    IF Context = NULL THEN ST
    ELSE LET ctx == ST.sctx[s] IN
    CASE Event.type = "RECEIVE" -> StreamReceive(ST, s, Event)
      [] Event.type = "SEND_COMPLETE" ->
            \* free(Event->SEND_COMPLETE.ClientContext)
            IF Event.arg # NULL
            THEN [ST EXCEPT !.strm[s].tx[Event.arg] =
                                [alloc |-> "freed", frees |-> @.frees + 1]]
            ELSE ST
      [] Event.type = "SHUTDOWN_COMPLETE" -> [ST EXCEPT !.sctx[s].shutdown = 1]
      [] Event.type = "PEER_SEND_SHUTDOWN" -> ST
      [] Event.type = "PEER_SEND_ABORTED" ->
            dispatch_to_ruby(ST, ctx.connection, ctx.connection_ctx, ctx.client_obj,
                "STREAM_RESET", StreamId(s), WordBytes(Event.code), Event)
      [] Event.type = "PEER_RECEIVE_ABORTED" ->
            dispatch_to_ruby(ST, ctx.connection, ctx.connection_ctx, ctx.client_obj,
                "STOP_SENDING", StreamId(s), WordBytes(Event.code), Event)
      [] OTHER -> ST

(***************************************************************************)
(* ConnectionCallback (lines 227-283) on connection c with callback        *)
(* context Context (the connection's ConnectionContext).                   *)
(***************************************************************************)
PeerStreamStarted(ST, c, Context, Event) ==
    LET s == Event.arg IN
    \* stream_ctx = malloc(sizeof(StreamContext))
    IF ~Event.oom
    THEN [ST EXCEPT
            !.sctx[s] = [alloc |-> "live", connection |-> ConnHandle(c),
                         connection_ctx |-> Context,
                         client_obj |-> ST.cctx[c].client_obj,
                         started |-> 1, shutdown |-> 0,
                         error_status |-> QUIC_STATUS_SUCCESS],
            \* MsQuic->SetCallbackHandler(Stream, StreamCallback, stream_ctx)
            !.strm[s].cb = TRUE]
    ELSE ST

\* a connection callback that reports a fault the moment the engine signals
\* it, and keeps no record of it
ConnectionCallback_FaultThrough(ST, c, Context, Event) ==
    IF Event.type \in {"SHUTDOWN_INITIATED_BY_TRANSPORT", "SHUTDOWN_INITIATED_BY_PEER"}
    THEN dispatch_to_ruby([ST EXCEPT !.cctx[c].connected = 0], ConnHandle(c), Context,
             ST.cctx[c].client_obj, "CONNECTION_CLOSED", 0, WordBytes(ConnHandle(c)), Event)
    ELSE ST

\* a connection callback whose shutdown cases set failed and leave connected
ConnectionCallback_KeepsConnected(ST, c, Context, Event) ==
    IF Event.type \in {"SHUTDOWN_INITIATED_BY_TRANSPORT", "SHUTDOWN_INITIATED_BY_PEER"}
    THEN [ST EXCEPT !.cctx[c].failed = 1]
    ELSE IF Event.type = "CONNECTED"
    THEN [ST EXCEPT !.cctx[c].connected = 1, !.cctx[c].failed = 0]
    ELSE ST

\* a connection callback that records CONNECTED without dispatching it
ConnectionCallback_Silent(ST, c, Context, Event) ==
    IF Event.type = "CONNECTED"
    THEN [ST EXCEPT !.cctx[c].connected = 1, !.cctx[c].failed = 0]
    ELSE ST

ConnectionCallback(ST, c, Context, Event) ==
    IF Context = NULL THEN ST
    ELSE LET ctx == ST.cctx[c] IN
    CASE Event.type = "CONNECTED" ->
            dispatch_to_ruby(
                [ST EXCEPT !.cctx[c].connected = 1, !.cctx[c].failed = 0],
                ConnHandle(c), Context, ctx.client_obj, "CONNECTION_ESTABLISHED", 0,
                WordBytes(ConnHandle(c)), Event)
      [] Event.type = "SHUTDOWN_INITIATED_BY_TRANSPORT" ->
            [ST EXCEPT !.cctx[c].connected = 0, !.cctx[c].failed = 1,
                       !.cctx[c].error_status = Event.status,
                       !.cctx[c].error_code = Event.code]
      [] Event.type = "SHUTDOWN_INITIATED_BY_PEER" ->
            [ST EXCEPT !.cctx[c].connected = 0, !.cctx[c].failed = 1,
                       !.cctx[c].error_status = QUIC_STATUS_SUCCESS,
                       !.cctx[c].error_code = Event.code]
      [] Event.type = "SHUTDOWN_COMPLETE" ->
            dispatch_to_ruby(
                [ST EXCEPT !.cctx[c].connected = 0],
                ConnHandle(c), Context, ctx.client_obj, "CONNECTION_CLOSED", 0,
                WordBytes(ConnHandle(c)), Event)
      [] Event.type = "PEER_STREAM_STARTED" -> PeerStreamStarted(ST, c, Context, Event)
      [] OTHER -> ST

(***************************************************************************)
(* ListenerCallback (lines 286-332).  A NEW_CONNECTION the callback fails  *)
(* is rejected by the engine, which then discards the connection.          *)
(***************************************************************************)
\* a callback returns a status other than QUIC_STATUS_SUCCESS
Refusal(Event, status) ==
    [kind |-> Event.kind, type |-> Event.type, oom |-> Event.oom, status |-> status]

ListenerNewConnection(ST, Event) ==
    LET c == Event.arg IN
    \* conn_ctx = malloc(sizeof(ConnectionContext))
    IF ~Event.oom
    THEN LET init == [ST EXCEPT
                 !.cctx[c] = [alloc |-> "live", connected |-> 0, failed |-> 0,
                              error_status |-> QUIC_STATUS_SUCCESS, error_code |-> 0,
                              client_obj |-> Qnil],
                 \* MsQuic->SetCallbackHandler(Connection, ConnectionCallback, conn_ctx)
                 !.conn[c].context = ConnCtxPtr(c)]
         IN IF Event.fail
            THEN \* ConnectionSetConfiguration failed: free(conn_ctx); return Status
                 [Destroy(init, "conn", c) EXCEPT
                              !.cctx[c].alloc = "freed", !.gc[c].frees = @ + 1,
                              !.conn[c].h = "rejected",
                              !.refused = @ \cup {Refusal(Event, "Status")}]
            ELSE [init EXCEPT !.conn[c].h = "open", !.conn[c].phase = "started"]
    ELSE \* return QUIC_STATUS_OUT_OF_MEMORY
         [ST EXCEPT !.conn[c].h = "rejected",
                    !.refused = @ \cup {Refusal(Event, "QUIC_STATUS_OUT_OF_MEMORY")}]

ListenerCallback(ST, Context, Event) ==
    IF Context = NULL THEN ST
    ELSE CASE Event.type = "NEW_CONNECTION" -> ListenerNewConnection(ST, Event)
           [] Event.type = "STOP_COMPLETE" -> [ST EXCEPT !.lctx.stopped = 1]
           [] OTHER -> ST

(***************************************************************************)
(* The engine.  It invokes a handle's callback with the context pointer    *)
(* registered for the handle, only while the handle is open, and never     *)
(* after the handle's close has returned.                                  *)
(***************************************************************************)
\* all the bytes of a RECEIVE event's buffers, in order
RECURSIVE Flatten(_)
Flatten(bufs) == IF bufs = <<>> THEN <<>> ELSE Head(bufs) \o Flatten(Tail(bufs))

\* the engine passes an event to the stream's callback
Received(ST, ev) ==
    IF ev.type = "RECEIVE"
    THEN [ST EXCEPT !.strm[ev.id].rx = Append(@, [bytes |-> Flatten(ev.bufs), fin |-> ev.fin])]
    ELSE [ST EXCEPT !.strm[ev.id].seen = Append(@, [type |-> ev.type, code |-> ev.code])]

\* sqe && sqe->Completion (lines 124, 149): the engine's own completions
\* carry a function, an event queued with no udata does not
HasCompletion(ev) == ev.kind \in {"conn", "stream", "listener"}

Completion(ST, ev) ==
    CASE ev.kind = "conn" ->
            IF ST.conn[ev.id].h = "open"
            THEN ConnectionCallback(ST, ev.id, ConnCtxPtr(ev.id), ev)
            ELSE ST
      [] ev.kind = "stream" ->
            IF ST.strm[ev.id].h = "open" /\ ST.strm[ev.id].cb
            THEN StreamCallback(Received(ST, ev), ev.id, StreamCtxPtr(ev.id), ev)
            ELSE ST
      [] ev.kind = "listener" ->
            IF ST.lst.h = "open" THEN ListenerCallback(ST, ListenerCtxPtr, ev) ELSE ST
      [] OTHER -> ST

\* the completion loops of quicsilver_poll and poll_inline (lines 122-127,
\* 147-152): the ready completions fire in the order kevent returned them
\* a completion loop that walks the array from its last entry
RECURSIVE FireCompletions_Backwards(_, _)
FireCompletions_Backwards(ST, evs) ==
    IF evs = <<>> THEN ST
    ELSE FireCompletions_Backwards(Completion(ST, evs[Len(evs)]),
                                   SubSeq(evs, 1, Len(evs) - 1))

RECURSIVE FireCompletions(_, _)
FireCompletions(ST, evs) ==
    IF evs = <<>> THEN ST
    ELSE FireCompletions(Completion(ST, Head(evs)), Tail(evs))

Min(a, b) == IF a < b THEN a ELSE b

\* what is left on the readiness queue after the first n completions
Drop(q, n) == SubSeq(q, n + 1, Len(q))

(***************************************************************************)
(* quicsilver_poll (lines 102-130).  kfail: kevent returns -1.             *)
(***************************************************************************)
quicsilver_poll(ST, kfail) ==
    IF ExecContext = NULL THEN [ST EXCEPT !.value = "count", !.n = 0]
    ELSE IF MsQuic = NULL THEN [ST EXCEPT !.value = "SIGSEGV"]
    ELSE LET count == IF kfail THEN -1 ELSE Min(Len(ST.ready), PollMaxEvents)
             fired == IF count > 0 THEN SubSeq(ST.ready, 1, count) ELSE <<>>
             st1 == FireCompletions([ST EXCEPT !.ready = Drop(@, Len(fired))], fired)
         IN [st1 EXCEPT !.value = "count", !.n = count]

PollIn(kfails) ==
    \E kfail \in kfails :
        LET st == quicsilver_poll(Store, kfail) IN
        /\ Running
        /\ SetStore(st)
        /\ ret' = Ret("poll", st.value, st.n)
        /\ UNCHANGED <<drive, bridgeVars, engineBridgeVars, acquired, released, wait>>

(***************************************************************************)
(* quicsilver_poll as the host's threads run it.  The call holds the GVL   *)
(* from entry to rb_thread_call_without_gvl (lines 105-119) and from the   *)
(* return of that call to its own return (lines 122-129); kevent runs in   *)
(* between without it (line 120), so the call is three steps and other     *)
(* threads run between them.                                               *)
(***************************************************************************)
\* the values ExecutionPoll returns that the model follows
WaitMsValues ==
    {U32(0, n) : n \in {0, 1, 99, 100, 101, 65535}}
    \cup {U32(1, 0), U32(65535, 65534), UINT32_MAX}

\* a budget that is the engine's deadline whenever there is one
ActualWait_Uncapped(wait_ms) ==
    IF wait_ms = UINT32_MAX THEN DefaultWaitMs ELSE wait_ms.lo

\* actual_wait (line 114)
ActualWait(wait_ms) ==
    IF wait_ms = UINT32_MAX THEN DefaultWaitMs
    ELSE IF wait_ms.hi > 0 \/ wait_ms.lo > DefaultWaitMs THEN DefaultWaitMs
    ELSE wait_ms.lo

\* lines 105-119: ExecutionPoll returns wait_ms, the call fills args
PollEnterIn(threads, values) ==
    \E t \in threads, wait_ms \in values :
        /\ Running
        /\ drive[t].pc = "idle"
        /\ IF ExecContext = NULL
           THEN ret' = Ret("poll", "count", 0) /\ UNCHANGED drive
           ELSE IF MsQuic = NULL
           THEN ret' = Ret("poll", "SIGSEGV", 0) /\ UNCHANGED drive
           ELSE LET actual_wait == ActualWait(wait_ms) IN
                /\ drive' = [drive EXCEPT ![t] =
                       [pc |-> "kevent", wait_ms |-> wait_ms,
                        actual_wait |-> actual_wait,
                        args |-> [tv_sec |-> actual_wait \div 1000,
                                  tv_nsec |-> (actual_wait % 1000) * 1000000,
                                  count |-> 0, events |-> <<>>]]]
                /\ UNCHANGED ret
        /\ UNCHANGED <<bridgeVars, engineBridgeVars, acquired, released, wait,
                       handleVars, ctxVars, eventVars>>

\* line 120, kevent_wait_nogvl: the ready events move into args.events
KeventWait ==
    \E t \in Threads, kfail \in BOOLEAN :
        LET count == IF kfail THEN -1 ELSE Min(Len(ready), PollMaxEvents)
            n == IF count > 0 THEN count ELSE 0
        IN /\ drive[t].pc = "kevent"
           /\ drive' = [drive EXCEPT ![t].pc = "fire", ![t].args.count = count,
                                     ![t].args.events = SubSeq(ready, 1, n)]
           /\ ready' = Drop(ready, n)
           /\ UNCHANGED <<bridgeVars, engineBridgeVars, callVars, wait,
                          handleVars, ctxVars, raised, log, refused>>

\* lines 122-129: the completions fire and the call returns
PollFire ==
    \E t \in Threads :
        /\ drive[t].pc = "fire"
        /\ SetStore(FireCompletions(Store, drive[t].args.events))
        /\ ret' = Ret("poll", "count", drive[t].args.count)
        /\ drive' = [drive EXCEPT ![t] = NoDrive[t]]
        /\ UNCHANGED <<bridgeVars, engineBridgeVars, acquired, released, wait>>

(***************************************************************************)
(* The engine raising events: a completion joins the readiness queue.      *)
(***************************************************************************)
Stamp(ST, ev) ==
    [ST EXCEPT !.raised = @ + 1, !.ready = Append(@, [ev EXCEPT !.seq = ST.raised + 1])]

CanRaise == Running /\ MsQuic # NULL /\ raised < MaxRaised /\ Len(ready) < MaxReady

FreshConns == {c \in Conns : conn[c].h = "none" /\ cctx[c].alloc = "none"}
FreshStreams == {s \in Streams : strm[s].h = "none" /\ sctx[s].alloc = "none"}
Lowest(S) == CHOOSE x \in S : \A y \in S : x <= y

StreamsOf(ST, c) == {s \in Streams : ST.strm[s].conn = c /\ ST.strm[s].h = "open"}

Statuses == {0, 1}
ErrorCodes == {0, 7}

RaiseVars == <<bridgeVars, engineBridgeVars, callVars, wait, drive>>

\* a peer reaches the started listener
RaiseNewConnectionIn(ooms, fails) ==
    \E oom \in ooms, fail \in fails :
        /\ CanRaise
        /\ lst.h = "open" /\ lst.started
        /\ FreshConns # {}
        /\ LET c == Lowest(FreshConns)
               ev == [Ev("listener", 1, "NEW_CONNECTION") EXCEPT
                         !.arg = c, !.oom = oom, !.fail = fail]
           IN SetStore(Stamp([Store EXCEPT !.conn[c] =
                   [h |-> "pending", origin |-> "listener", phase |-> "idle", context |-> NULL]], ev))
        /\ UNCHANGED RaiseVars

RaiseConnected ==
    \E c \in Conns :
        /\ CanRaise
        /\ conn[c].h = "open" /\ conn[c].phase = "started"
        /\ SetStore(Stamp([Store EXCEPT !.conn[c].phase = "connected"],
                          Ev("conn", c, "CONNECTED")))
        /\ UNCHANGED RaiseVars

RaiseShutdownByTransportIn(statuses, codes) ==
    \E c \in Conns, status \in statuses, code \in codes :
        /\ CanRaise
        /\ conn[c].h = "open" /\ conn[c].phase \in {"started", "connected"}
        /\ SetStore(Stamp([Store EXCEPT !.conn[c].phase = "shutdown"],
                          [Ev("conn", c, "SHUTDOWN_INITIATED_BY_TRANSPORT") EXCEPT
                              !.status = status, !.code = code]))
        /\ UNCHANGED RaiseVars

RaiseShutdownByPeerIn(codes) ==
    \E c \in Conns, code \in codes :
        /\ CanRaise
        /\ conn[c].h = "open" /\ conn[c].phase = "connected"
        /\ SetStore(Stamp([Store EXCEPT !.conn[c].phase = "shutdown"],
                          [Ev("conn", c, "SHUTDOWN_INITIATED_BY_PEER") EXCEPT !.code = code]))
        /\ UNCHANGED RaiseVars

\* the engine completes a connection's shutdown after its streams'
RaiseConnShutdownComplete ==
    \E c \in Conns :
        /\ CanRaise
        /\ conn[c].h = "open" /\ conn[c].phase = "shutdown"
        /\ \A s \in StreamsOf(Store, c) : strm[s].phase = "complete"
        /\ SetStore(Stamp([Store EXCEPT !.conn[c].phase = "complete"],
                          Ev("conn", c, "SHUTDOWN_COMPLETE")))
        /\ UNCHANGED RaiseVars

RaisePeerStreamStartedIn(ooms) ==
    \E c \in Conns, oom \in ooms :
        /\ CanRaise
        /\ conn[c].h = "open" /\ conn[c].phase = "connected"
        /\ FreshStreams # {}
        /\ LET s == Lowest(FreshStreams)
               ev == [Ev("conn", c, "PEER_STREAM_STARTED") EXCEPT !.arg = s, !.oom = oom]
           IN SetStore(Stamp([Store EXCEPT !.strm[s] =
                   [h |-> "open", conn |-> c, origin |-> "peer", phase |-> "open",
                    cb |-> FALSE, rx |-> <<>>, seen |-> <<>>, tx |-> <<>>]], ev))
        /\ UNCHANGED RaiseVars

\* the buffers of one RECEIVE event
Chunks == {<<>>, <<<<1>>>>, <<<<2>>, <<3>>>>}

RaiseReceiveIn(chunks, fins, ooms) ==
    \E s \in Streams, bufs \in chunks, fin \in fins, oom \in ooms :
        /\ CanRaise
        /\ strm[s].h = "open" /\ strm[s].cb /\ strm[s].phase = "open"
        /\ fin \/ bufs # <<>>
        /\ oom => fin /\ bufs # <<>>
        /\ SetStore(Stamp([Store EXCEPT !.strm[s].phase = IF fin THEN "fin" ELSE "open"],
                          [Ev("stream", s, "RECEIVE") EXCEPT
                              !.bufs = bufs, !.fin = fin, !.oom = oom]))
        /\ UNCHANGED RaiseVars

RaisePeerAbortedIn(types, codes) ==
    \E s \in Streams, code \in codes, type \in types :
        /\ CanRaise
        /\ strm[s].h = "open" /\ strm[s].cb
        /\ strm[s].phase \in (IF type = "PEER_SEND_ABORTED" THEN {"open"} ELSE {"open", "fin"})
        /\ SetStore(Stamp([Store EXCEPT !.strm[s].phase =
                              IF type = "PEER_SEND_ABORTED" THEN "fin" ELSE @],
                          [Ev("stream", s, type) EXCEPT !.code = code]))
        /\ UNCHANGED RaiseVars

\* the engine completes a stream's shutdown once it has raised the
\* SEND_COMPLETE of every send it accepted on the stream
RaiseStreamShutdownComplete ==
    \E s \in Streams :
        /\ CanRaise
        /\ strm[s].h = "open" /\ strm[s].cb
        /\ strm[s].phase \in {"open", "fin"}
        /\ \A b \in 1..Len(strm[s].tx) : strm[s].tx[b].alloc # "sent"
        /\ SetStore(Stamp([Store EXCEPT !.strm[s].phase = "complete"],
                          Ev("stream", s, "SHUTDOWN_COMPLETE")))
        /\ UNCHANGED RaiseVars

(***************************************************************************)
(* quicsilver_create_listener (lines 747-784) and quicsilver_start_listener*)
(* (lines 787-824), for the one listener the model follows.                *)
(***************************************************************************)
quicsilver_create_listener(ST, config_handle, fail) ==
    IF MsQuic = NULL THEN [ST EXCEPT !.value = "raise"]
    ELSE LET init == [ST EXCEPT !.lctx = [alloc |-> "live", started |-> 0, stopped |-> 0,
                                          failed |-> 0, error_status |-> QUIC_STATUS_SUCCESS,
                                          Configuration |-> config_handle]]
         IN IF fail
            THEN \* ListenerOpen failed: free(ctx)
                 [Destroy(init, "listener", 1) EXCEPT !.lctx.alloc = "freed",
                                                      !.value = "raise"]
            ELSE [init EXCEPT !.lst = [h |-> "open", started |-> FALSE],
                              !.value = "descriptor"]

CreateListenerIn(fails) ==
    \E fail \in fails :
        LET st == quicsilver_create_listener(Store, 1, fail) IN
        /\ Running
        /\ lst.h = "none" /\ lctx.alloc = "none"
        /\ SetStore(st)
        /\ ret' = Ret("create_listener", st.value, 0)
        /\ UNCHANGED <<drive, bridgeVars, engineBridgeVars, acquired, released, wait>>

quicsilver_start_listener(ST, listener_handle, fail) ==
    IF MsQuic = NULL THEN [ST EXCEPT !.value = "raise"]
    ELSE IF fail THEN [ST EXCEPT !.value = "raise"]
    ELSE [ST EXCEPT !.lst.started = TRUE, !.value = "Qtrue"]

StartListenerIn(fails) ==
    \E fail \in fails :
        LET st == quicsilver_start_listener(Store, ListenerHandle, fail) IN
        /\ Running
        /\ lst.h = "open" /\ ~lst.started
        /\ SetStore(st)
        /\ ret' = Ret("start_listener", st.value, 0)
        /\ UNCHANGED <<drive, bridgeVars, engineBridgeVars, acquired, released, wait>>

(***************************************************************************)
(* quicsilver_create_connection (lines 543-587).  c is the slot of the     *)
(* record malloc returns; fail: ConnectionOpen fails.                      *)
(***************************************************************************)
\* rb_gc_register_address(&ctx->client_obj) when client_obj is not nil
GcRegister(ST, c, client_obj) ==
    IF client_obj # Qnil THEN [ST EXCEPT !.gc[c].regs = @ + 1] ELSE ST

\* rb_gc_unregister_address(&ctx->client_obj) when client_obj is not nil
GcUnregister(ST, c, client_obj) ==
    IF client_obj # Qnil
    THEN [ST EXCEPT !.gc[c].regs = IF @ > 0 THEN @ - 1 ELSE 0, !.gc[c].unregs = @ + 1]
    ELSE ST

\* free(ctx) of a ConnectionContext
FreeConnCtx(ST, c) ==
    [Destroy(ST, "conn", c) EXCEPT !.cctx[c].alloc = "freed", !.gc[c].frees = @ + 1]

\* a create_connection that frees the record of a failed ConnectionOpen and
\* leaves its owner registered
quicsilver_create_connection_StillPinned(ST, c, client_obj, fail) ==
    LET init == GcRegister(
                    [ST EXCEPT !.cctx[c] =
                        [alloc |-> "live", connected |-> 0, failed |-> 0,
                         error_status |-> QUIC_STATUS_SUCCESS, error_code |-> 0,
                         client_obj |-> client_obj]],
                    c, client_obj)
    IN IF fail
       THEN [FreeConnCtx(init, c) EXCEPT !.value = "raise"]
       ELSE [init EXCEPT !.conn[c] = [h |-> "open", origin |-> "app", phase |-> "idle",
                                             context |-> ConnCtxPtr(c)],
                         !.value = "descriptor"]

quicsilver_create_connection(ST, c, client_obj, fail) ==
    IF MsQuic = NULL THEN [ST EXCEPT !.value = "raise"]
    ELSE LET init == GcRegister(
                        [ST EXCEPT !.cctx[c] =
                            [alloc |-> "live", connected |-> 0, failed |-> 0,
                             error_status |-> QUIC_STATUS_SUCCESS, error_code |-> 0,
                             client_obj |-> client_obj]],
                        c, client_obj)
         IN IF fail
            THEN [FreeConnCtx(GcUnregister(init, c, client_obj), c) EXCEPT !.value = "raise"]
            ELSE [init EXCEPT !.conn[c] = [h |-> "open", origin |-> "app", phase |-> "idle",
                                             context |-> ConnCtxPtr(c)],
                              !.value = "descriptor"]

CreateConnectionIn(objs, fails) ==
    \E client_obj \in objs, fail \in fails :
        /\ Running
        /\ FreshConns # {}
        /\ LET st == quicsilver_create_connection(Store, Lowest(FreshConns), client_obj, fail)
           IN /\ SetStore(st)
              /\ ret' = Ret("create_connection", st.value, 0)
        /\ UNCHANGED <<drive, bridgeVars, engineBridgeVars, acquired, released, wait>>

(***************************************************************************)
(* quicsilver_start_connection (lines 590-610).                            *)
(***************************************************************************)
quicsilver_start_connection(ST, c, fail) ==
    IF MsQuic = NULL THEN [ST EXCEPT !.value = "raise"]
    ELSE IF fail THEN [ST EXCEPT !.value = "raise"]
    ELSE [ST EXCEPT !.conn[c].phase = "started", !.value = "Qtrue"]

StartConnectionIn(fails) ==
    \E c \in Conns, fail \in fails :
        LET st == quicsilver_start_connection(Store, c, fail) IN
        /\ Running
        /\ conn[c].h = "open" /\ conn[c].origin = "app" /\ conn[c].phase = "idle"
        /\ SetStore(st)
        /\ ret' = Ret("start_connection", st.value, 0)
        /\ UNCHANGED <<drive, bridgeVars, engineBridgeVars, acquired, released, wait>>

(***************************************************************************)
(* MsQuic->ConnectionClose(Connection), as called at line 676.  The engine *)
(* runs the close on the calling thread: it completes the shutdown of the  *)
(* connection's streams and of the connection (a SHUTDOWN_COMPLETE not     *)
(* yet passed to a callback is passed to it inside the call), drops the    *)
(* connection's pending completions and invokes no                         *)
(* callback of the connection or of its streams afterwards.  Closing a     *)
(* handle that is not open changes nothing the model follows.              *)
(***************************************************************************)
\* the engine has passed SHUTDOWN_COMPLETE to the handle's callback: it
\* raised it and the completion is not waiting on the readiness queue
ShutdownDelivered(ST, kind, id) ==
    /\ IF kind = "conn" THEN ST.conn[id].phase = "complete"
                        ELSE ST.strm[id].phase = "complete"
    /\ ~\E i \in 1..Len(ST.ready) :
          /\ ST.ready[i].kind = kind /\ ST.ready[i].id = id
          /\ ST.ready[i].type = "SHUTDOWN_COMPLETE"

\* the send buffers of stream s the engine still holds
Outstanding(ST, s) ==
    {b \in 1..Len(ST.strm[s].tx) : ST.strm[s].tx[b].alloc \in {"sent", "completing"}}

\* the engine cancels the sends of a stream it shuts down: each buffer it
\* still holds gets its SEND_COMPLETE, inline
RECURSIVE CancelSends(_, _, _)
CancelSends(ST, s, bs) ==
    IF bs = {} \/ ~ST.strm[s].cb THEN ST
    ELSE LET b == Lowest(bs)
             ev == [Ev("stream", s, "SEND_COMPLETE") EXCEPT !.arg = b, !.seq = ST.raised + 1]
         IN CancelSends(StreamCallback(Received([ST EXCEPT !.raised = @ + 1], ev),
                                       s, StreamCtxPtr(s), ev),
                        s, bs \ {b})

\* the engine completes the shutdown of stream s: SHUTDOWN_COMPLETE goes to
\* the stream's callback unless it went there before
ShutdownStream(ST, s) ==
    LET ev == [Ev("stream", s, "SHUTDOWN_COMPLETE") EXCEPT !.seq = ST.raised + 1]
        st1 == IF ST.strm[s].cb /\ ~ShutdownDelivered(ST, "stream", s)
               THEN StreamCallback(Received([ST EXCEPT !.raised = @ + 1], ev),
                                   s, StreamCtxPtr(s), ev)
               ELSE ST
    IN [st1 EXCEPT !.strm[s].phase = "complete"]

RECURSIVE ShutdownStreams(_, _)
ShutdownStreams(ST, ss) ==
    IF ss = {} THEN ST
    ELSE LET s == Lowest(ss)
         IN ShutdownStreams(ShutdownStream(CancelSends(ST, s, Outstanding(ST, s)), s),
                            ss \ {s})

PendingOf(ST, c) ==
    {i \in 1..Len(ST.ready) :
        \/ ST.ready[i].kind = "conn" /\ ST.ready[i].id = c
        \/ ST.ready[i].kind = "stream" /\ ST.strm[ST.ready[i].id].conn = c}

RECURSIVE Without(_, _)
Without(q, drop) ==
    IF q = <<>> THEN <<>>
    ELSE LET rest == Without(SubSeq(q, 1, Len(q) - 1), drop)
         IN IF Len(q) \in drop THEN rest ELSE Append(rest, q[Len(q)])

ConnectionClose(ST, c) ==
    IF ST.conn[c].h # "open" THEN ST
    ELSE LET st1 == ShutdownStreams(ST, StreamsOf(ST, c))
             ev == [Ev("conn", c, "SHUTDOWN_COMPLETE") EXCEPT !.seq = st1.raised + 1]
             st2 == IF st1.conn[c].phase # "idle" /\ ~ShutdownDelivered(st1, "conn", c)
                    THEN ConnectionCallback([st1 EXCEPT !.raised = @ + 1], c, ConnCtxPtr(c), ev)
                    ELSE st1
         IN [st2 EXCEPT !.conn[c].h = "closed", !.conn[c].phase = "complete",
                        !.conn[c].context = NULL,
                        !.ready = Without(@, PendingOf(st2, c))]

(***************************************************************************)
(* quicsilver_close_connection_handle (lines 661-689) on the descriptor    *)
(* connection_data = [connection handle, context pointer].  Reading        *)
(* ctx->client_obj of a record that was freed is undefined: sawNil is what *)
(* NIL_P then sees.                                                        *)
(***************************************************************************)
\* the release of the record without closing the engine handle first
CloseEngineHandle_Skipped(ST, Connection) == ST

CloseEngineHandle(ST, Connection) ==
    IF Connection # NULL THEN ConnectionClose(ST, ConnOfHandle(Connection)) ELSE ST

ReleaseConnCtx(ST, c, sawNil) ==
    LET client_obj == IF ST.cctx[c].alloc = "live" THEN ST.cctx[c].client_obj
                      ELSE IF sawNil THEN Qnil ELSE 1
    IN FreeConnCtx(GcUnregister(ST, c, client_obj), c)

quicsilver_close_connection_handle(ST, connection_data, sawNil) ==
    IF MsQuic = NULL THEN [ST EXCEPT !.value = "Qnil"]
    ELSE LET Connection == connection_data[1]
             ctx == connection_data[2]
             st1 == CloseEngineHandle(ST, Connection)
             st2 == IF ctx # NULL THEN ReleaseConnCtx(st1, ConnOfCtxPtr(ctx), sawNil) ELSE st1
         IN [st2 EXCEPT !.value = "Qnil"]

\* the connection descriptors the host holds: those create_connection
\* returned and those the server handler was given
Descriptors ==
    {<<ConnHandle(c), ConnCtxPtr(c)>> : c \in {x \in Conns : conn[x].origin = "app"}}
    \cup {log[i].desc : i \in {j \in 1..Len(log) : log[j].dest = "server"}}

CloseConnectionHandleIn(descriptors) ==
    \E d \in descriptors, sawNil \in BOOLEAN :
        LET st == quicsilver_close_connection_handle(Store, d, sawNil)
            c == ConnOfCtxPtr(d[2])
        IN /\ Running
           /\ gc[c].frees < MaxCloses
           /\ sawNil => cctx[c].alloc = "freed"
           /\ SetStore(st)
           /\ ret' = Ret("close_connection_handle", st.value, 0)
           /\ UNCHANGED <<drive, bridgeVars, engineBridgeVars, acquired, released, wait>>

CloseConnectionHandle == CloseConnectionHandleIn(Descriptors)

(***************************************************************************)
(* quicsilver_close_listener (lines 840-860) on the descriptor             *)
(* listener_data = [listener handle, context pointer].  ListenerClose      *)
(* drops the listener's pending events and the connections they offered.   *)
(***************************************************************************)
ListenerClose(ST, Listener) ==
    [ST EXCEPT !.lst.h = "closed",
               !.ready = SelectSeq(@, LAMBDA e : e.kind # "listener"),
               !.conn = [c \in Conns |-> IF ST.conn[c].h = "pending"
                                         THEN [ST.conn[c] EXCEPT !.h = "rejected"]
                                         ELSE ST.conn[c]]]

quicsilver_close_listener(ST, listener_data) ==
    IF MsQuic = NULL THEN [ST EXCEPT !.value = "Qnil"]
    ELSE LET ctx == listener_data[2]
             st1 == ListenerClose(ST, listener_data[1])
             st2 == IF ctx # NULL
                    THEN [Destroy(st1, "listener", 1) EXCEPT !.lctx.alloc = "freed"]
                    ELSE st1
         IN [st2 EXCEPT !.value = "Qnil"]

CloseListener ==
    LET st == quicsilver_close_listener(Store, <<ListenerHandle, ListenerCtxPtr>>) IN
    /\ Running
    /\ lst.h = "open" /\ lctx.alloc = "live"
    /\ SetStore(st)
    /\ ret' = Ret("close_listener", st.value, 0)
    /\ UNCHANGED <<drive, bridgeVars, engineBridgeVars, acquired, released, wait>>

(***************************************************************************)
(* quicsilver_open_stream (lines 865-917) on a descriptor whose connection *)
(* handle is open.  s is the slot of the record malloc returns; fail names *)
(* the engine call that fails.                                             *)
(***************************************************************************)
quicsilver_open_stream(ST, s, connection_data, fail) ==
    IF MsQuic = NULL THEN [ST EXCEPT !.value = "raise"]
    ELSE LET Connection == connection_data[1]
             conn_ctx == connection_data[2]
             init == [ST EXCEPT !.sctx[s] =
                         [alloc |-> "live", connection |-> Connection,
                          connection_ctx |-> conn_ctx,
                          client_obj |-> IF conn_ctx # NULL
                                         THEN ST.cctx[ConnOfCtxPtr(conn_ctx)].client_obj
                                         ELSE Qnil,
                          started |-> 1, shutdown |-> 0,
                          error_status |-> QUIC_STATUS_SUCCESS]]
         IN IF fail = "StreamOpen"
            THEN [Destroy(init, "stream", s) EXCEPT !.sctx[s].alloc = "freed",
                                                    !.value = "raise"]
            ELSE IF fail = "StreamStart"
            THEN LET opened == [init EXCEPT !.strm[s] =
                                   [h |-> "open", conn |-> ConnOfHandle(Connection),
                                    origin |-> "app", phase |-> "idle", cb |-> TRUE,
                                    rx |-> <<>>, seen |-> <<>>, tx |-> <<>>]]
                     \* free(ctx)
                     freed == [Destroy(opened, "stream", s) EXCEPT !.sctx[s].alloc = "freed"]
                 IN \* MsQuic->StreamClose(Stream)
                    [freed EXCEPT !.strm[s].h = "closed", !.strm[s].phase = "complete",
                                  !.value = "raise"]
            ELSE [init EXCEPT !.strm[s] = [h |-> "open", conn |-> ConnOfHandle(Connection),
                                           origin |-> "app", phase |-> "open", cb |-> TRUE,
                                           rx |-> <<>>, seen |-> <<>>, tx |-> <<>>],
                              !.value = "handle"]

OpenStreamIn(fails) ==
    \E d \in Descriptors, fail \in fails :
        /\ Running
        /\ FreshStreams # {}
        /\ conn[ConnOfHandle(d[1])].h = "open"
        /\ conn[ConnOfHandle(d[1])].phase \in {"idle", "started", "connected"}
        /\ LET st == quicsilver_open_stream(Store, Lowest(FreshStreams), d, fail)
           IN /\ SetStore(st)
              /\ ret' = Ret("open_stream", st.value, 0)
        /\ UNCHANGED <<drive, bridgeVars, engineBridgeVars, acquired, released, wait>>

(***************************************************************************)
(* quicsilver_send_stream (lines 920-958) on the handle of stream s.  The  *)
(* stream's tx lists the send buffers malloc returned for it: "sent" while *)
(* the engine holds the buffer, "completing" once its SEND_COMPLETE is     *)
(* raised.  oom: malloc fails; fail: StreamSend fails.                     *)
(***************************************************************************)
quicsilver_send_stream(ST, s, oom, fail) ==
    IF MsQuic = NULL THEN [ST EXCEPT !.value = "raise"]
    ELSE IF oom THEN [ST EXCEPT !.value = "raise"]
    ELSE IF fail
    THEN \* free(SendBufferRaw)
         [ST EXCEPT !.strm[s].tx = Append(@, [alloc |-> "freed", frees |-> 1]),
                    !.value = "raise"]
    ELSE [ST EXCEPT !.strm[s].tx = Append(@, [alloc |-> "sent", frees |-> 0]),
                    !.value = "Qtrue"]

\* the host has the handle of a stream it opened, and learns the handle of
\* a peer's stream from the payload of a DATA_RECEIVED_FINAL (lines 176-186)
HandleKnown(s) ==
    \/ strm[s].origin = "app"
    \/ \E i \in 1..Len(log) :
          log[i].kind = "stream" /\ log[i].id = s /\ log[i].type = "RECEIVE_FIN"

SendStreamIn(ooms, fails) ==
    \E s \in Streams, oom \in ooms, fail \in fails :
        LET st == quicsilver_send_stream(Store, s, oom, fail) IN
        /\ Running
        /\ strm[s].h = "open" /\ strm[s].phase \in {"open", "fin"}
        /\ HandleKnown(s)
        /\ Len(strm[s].tx) < MaxSends
        /\ SetStore(st)
        /\ ret' = Ret("send_stream", st.value, 0)
        /\ UNCHANGED <<drive, bridgeVars, engineBridgeVars, acquired, released, wait>>

\* the engine is done with a send buffer
RaiseSendComplete ==
    \E s \in Streams :
        \E b \in {i \in 1..Len(strm[s].tx) : strm[s].tx[i].alloc = "sent"} :
            /\ CanRaise
            /\ strm[s].h = "open" /\ strm[s].cb
            /\ SetStore(Stamp([Store EXCEPT !.strm[s].tx[b].alloc = "completing"],
                              [Ev("stream", s, "SEND_COMPLETE") EXCEPT !.arg = b]))
            /\ UNCHANGED RaiseVars

(***************************************************************************)
(* poll_inline (lines 134-153): one inline drive cycle.  kfail: kevent     *)
(* returns -1, and the loop over the events does not run.                  *)
(***************************************************************************)
poll_inline(ST, timeout_ms, kfail) ==
    IF ExecContext = NULL THEN ST
    ELSE IF MsQuic = NULL THEN [ST EXCEPT !.value = "SIGSEGV"]
    ELSE LET count == IF kfail THEN -1 ELSE Min(Len(ST.ready), InlineMaxEvents)
             fired == IF count > 0 THEN SubSeq(ST.ready, 1, count) ELSE <<>>
         IN FireCompletions([ST EXCEPT !.ready = Drop(@, Len(fired))], fired)

(***************************************************************************)
(* quicsilver_wait_for_connection (lines 613-640) on the context pointer   *)
(* context_handle.  The host thread keeps the interpreter lock for the     *)
(* whole call: no other API call runs between two iterations, the engine   *)
(* raises events while kevent waits.                                       *)
(***************************************************************************)
\* timeout_ms as NUM2INT accepts it
WaitTimeouts == {-5, 0, 5, 20, INT_MAX}

\* while (elapsed < timeout && !ctx->connected && !ctx->failed)
WaitCondition(W, ctx) ==
    ~W.over /\ W.elapsed < W.timeout /\ ctx.connected = 0 /\ ctx.failed = 0

\* elapsed += sleep_interval on a 32-bit int.  The sum of a signed overflow
\* is undefined: wraps is whether the build wraps it around or carries on
\* with the exact sum (which is not below any timeout)
AddInterval(W, wraps) ==
    IF W.elapsed > INT_MAX - SleepInterval
    THEN IF wraps
         THEN [W EXCEPT !.elapsed = (@ - INT_MAX - 1) + (SleepInterval - INT_MAX - 1)]
         ELSE [W EXCEPT !.over = TRUE]
    ELSE [W EXCEPT !.elapsed = @ + SleepInterval]

\* the selection of the result (lines 626-639)
WaitResult_ExpiryFirst(W, ctx) ==
    IF W.elapsed >= W.timeout THEN [kind |-> "timeout", status |-> 0, code |-> 0]
    ELSE IF ctx.connected # 0 THEN [kind |-> "connected", status |-> 0, code |-> 0]
    ELSE [kind |-> "error", status |-> ctx.error_status, code |-> ctx.error_code]

WaitResult(W, ctx) ==
    IF ctx.connected # 0 THEN [kind |-> "connected", status |-> 0, code |-> 0]
    ELSE IF ctx.failed # 0
    THEN [kind |-> "error", status |-> ctx.error_status, code |-> ctx.error_code]
    ELSE [kind |-> "timeout", status |-> 0, code |-> 0]

\* the call is entered: int timeout = NUM2INT(timeout_ms); int elapsed = 0
WaitCall ==
    \E c \in Conns, timeout_ms \in WaitTimeouts :
        /\ Running
        /\ wait.pc = "idle"
        /\ cctx[c].alloc = "live"
        /\ wait' = [NoWait EXCEPT !.pc = "loop", !.ctx = ConnCtxPtr(c),
                                  !.timeout = timeout_ms]
        /\ ret' = Ret("wait_for_connection", "running", 0)
        /\ UNCHANGED <<drive, bridgeVars, engineBridgeVars, acquired, released,
                       handleVars, ctxVars, eventVars>>

\* one iteration of the loop: poll_inline(sleep_interval); elapsed += ...
WaitIter ==
    \E wraps \in BOOLEAN, kfail \in BOOLEAN :
        /\ Running
        /\ wait.pc = "loop" /\ wait.steps < MaxWaitSteps
        /\ WaitCondition(wait, cctx[ConnOfCtxPtr(wait.ctx)])
        /\ wraps => wait.elapsed > INT_MAX - SleepInterval
        /\ LET st == poll_inline(Store, SleepInterval, kfail)
           IN /\ SetStore(st)
              /\ ret' = IF st.value = "SIGSEGV"
                        THEN Ret("wait_for_connection", "SIGSEGV", 0)
                        ELSE ret
        /\ wait' = [AddInterval(wait, wraps) EXCEPT !.drives = @ + 1, !.steps = @ + 1]
        /\ UNCHANGED <<drive, bridgeVars, engineBridgeVars, acquired, released>>

\* the iterations before the last one that can end the loop, when no
\* completion is ready and none becomes ready: each is a poll_inline that
\* fires nothing and an addition that does not overflow
IdleIterations(W) == (W.timeout - W.elapsed - 1) \div SleepInterval

WaitSpin ==
    /\ Running
    /\ wait.pc = "loop" /\ wait.steps < MaxWaitSteps
    /\ WaitCondition(wait, cctx[ConnOfCtxPtr(wait.ctx)])
    /\ ExecContext # NULL /\ MsQuic # NULL
    /\ ready = <<>>
    /\ wait.elapsed >= 0
    /\ IdleIterations(wait) >= 1
    /\ wait' = [wait EXCEPT !.elapsed = @ + SleepInterval * IdleIterations(wait),
                            !.drives = @ + IdleIterations(wait),
                            !.steps = @ + 1]
    /\ UNCHANGED <<drive, bridgeVars, engineBridgeVars, callVars, handleVars, ctxVars, eventVars>>

\* the loop has ended: the result is built from the flags
WaitReturn ==
    /\ Running
    /\ wait.pc = "loop"
    /\ ~WaitCondition(wait, cctx[ConnOfCtxPtr(wait.ctx)])
    /\ LET result == WaitResult(wait, cctx[ConnOfCtxPtr(wait.ctx)])
       IN /\ wait' = [wait EXCEPT !.pc = "done", !.result = result]
          /\ ret' = Ret("wait_for_connection", result.kind, 0)
    /\ UNCHANGED <<drive, bridgeVars, engineBridgeVars, acquired, released,
                   handleVars, ctxVars, eventVars>>

(***************************************************************************)
(* The bridge's life cycle alone: open (each step may fail), close, poll.  *)
(***************************************************************************)
Open == OpenIn(OpenFailures)
Poll == PollIn(BOOLEAN)

CreateOrFail == CreateConnectionIn({1}, BOOLEAN)

NextBridge == Open \/ Close \/ Poll \/ CreateOrFail \/ CloseConnectionHandle

SpecBridge == Init /\ [][NextBridge]_vars

(***************************************************************************)
(* Connections, streams and the listener on an open bridge.                *)
(***************************************************************************)
OpenOk == OpenIn({"none"})
CreateListener == CreateListenerIn({FALSE})
StartListener == StartListenerIn({FALSE})
CreateConnection == CreateConnectionIn({1}, {FALSE})
StartConnection == StartConnectionIn({FALSE})
OpenStream == OpenStreamIn({"none"})
PollOk == PollIn({FALSE})
RaiseNewConnection == RaiseNewConnectionIn({FALSE}, {FALSE})
RaiseShutdownByTransport == RaiseShutdownByTransportIn({1}, {7})
RaisePeerStreamStarted == RaisePeerStreamStartedIn({FALSE})
RaiseReceive == RaiseReceiveIn({<<<<1>>>>}, BOOLEAN, {FALSE})

Next ==
    \/ OpenOk
    \/ CreateListener
    \/ StartListener
    \/ CreateConnection
    \/ StartConnection
    \/ OpenStream
    \/ CloseConnectionHandle
    \/ PollOk
    \/ RaiseNewConnection
    \/ RaiseConnected
    \/ RaiseShutdownByTransport
    \/ RaiseConnShutdownComplete
    \/ RaisePeerStreamStarted
    \/ RaiseReceive
    \/ RaiseStreamShutdownComplete

Spec == Init /\ [][Next]_vars

(***************************************************************************)
(* A wait_for_connection call on a started connection of an open bridge.   *)
(* InitWait is the state after open, create_connection(owner) and          *)
(* start_connection.                                                       *)
(***************************************************************************)
InitOpened ==
    /\ MsQuic = 1
    /\ EventQ = 1
    /\ ExecContext = 1
    /\ Registration = 1
    /\ apiRefs = 1
    /\ openFds = {1}
    /\ liveExecs = {1}
    /\ liveRegs = {1}
    /\ acquired = <<"MsQuic", "EventQ", "ExecContext", "Registration">>
    /\ released = <<>>
    /\ lst = NoListener
    /\ lctx = NoListenerCtx
    /\ ready = <<>>
    /\ raised = 0
    /\ log = <<>>
    /\ wait = NoWait
    /\ drive = NoDrive
    /\ destroyed = {}
    /\ refused = {}

InitWait ==
    /\ InitOpened
    /\ ret = Ret("start_connection", "Qtrue", 0)
    /\ conn = [c \in Conns |-> IF c = 1
                   THEN [h |-> "open", origin |-> "app", phase |-> "started",
                         context |-> ConnCtxPtr(c)]
                   ELSE NoConn]
    /\ cctx = [c \in Conns |-> IF c = 1
                   THEN [NoConnCtx EXCEPT !.alloc = "live", !.client_obj = 1]
                   ELSE NoConnCtx]
    /\ gc = [c \in Conns |-> [regs |-> IF c = 1 THEN 1 ELSE 0, unregs |-> 0, frees |-> 0]]
    /\ strm = [s \in Streams |-> NoStream]
    /\ sctx = [s \in Streams |-> NoStreamCtx]

RaiseShutdownAny == RaiseShutdownByTransportIn(Statuses, ErrorCodes)
RaiseShutdownByPeer == RaiseShutdownByPeerIn(ErrorCodes)
\* the host drives the engine itself when it is not inside the wait
PollOutsideWait == wait.pc # "loop" /\ PollOk

NextWait ==
    \/ WaitCall
    \/ WaitIter
    \/ WaitSpin
    \/ WaitReturn
    \/ PollOutsideWait
    \/ RaiseConnected
    \/ RaiseShutdownAny
    \/ RaiseShutdownByPeer

SpecWait == InitWait /\ [][NextWait]_vars

(***************************************************************************)
(* The data path of one stream of a connected connection.  InitStream is   *)
(* the state after open, create_connection(client_obj), start_connection,  *)
(* CONNECTED driven and open_stream, for each kind of client_obj.          *)
(***************************************************************************)
InitStream ==
    /\ InitOpened
    /\ ret = Ret("open_stream", "handle", 0)
    /\ \E client_obj \in {Qnil} \cup Owners :
          /\ conn = [c \in Conns |-> IF c = 1
                         THEN [h |-> "open", origin |-> "app", phase |-> "connected",
                         context |-> ConnCtxPtr(c)]
                         ELSE NoConn]
          /\ cctx = [c \in Conns |-> IF c = 1
                         THEN [NoConnCtx EXCEPT !.alloc = "live", !.connected = 1,
                                                !.client_obj = client_obj]
                         ELSE NoConnCtx]
          /\ gc = [c \in Conns |->
                     [regs |-> IF c = 1 /\ client_obj # Qnil THEN 1 ELSE 0,
                      unregs |-> 0, frees |-> 0]]
          /\ strm = [s \in Streams |-> IF s = 1
                         THEN [h |-> "open", conn |-> 1, origin |-> "app",
                               phase |-> "open", cb |-> TRUE, rx |-> <<>>, seen |-> <<>>, tx |-> <<>>]
                         ELSE NoStream]
          /\ sctx = [s \in Streams |-> IF s = 1
                         THEN [alloc |-> "live", connection |-> ConnHandle(1),
                               connection_ctx |-> ConnCtxPtr(1),
                               client_obj |-> client_obj, started |-> 1,
                               shutdown |-> 0, error_status |-> QUIC_STATUS_SUCCESS]
                         ELSE NoStreamCtx]

RaiseReceiveAny == RaiseReceiveIn(Chunks, BOOLEAN, BOOLEAN)
RaisePeerAborted == RaisePeerAbortedIn({"PEER_SEND_ABORTED", "PEER_RECEIVE_ABORTED"}, {7})

NextStream ==
    \/ PollOk
    \/ RaiseReceiveAny
    \/ RaisePeerAborted
    \/ RaiseStreamShutdownComplete
    \/ RaiseShutdownByPeer
    \/ RaiseConnShutdownComplete
    \/ CloseConnectionHandle

SpecStream == InitStream /\ [][NextStream]_vars

(***************************************************************************)
(* The drive cycle: one started stream, events of the stream and events    *)
(* with no completion function ready, and kevent succeeding or failing.    *)
(***************************************************************************)
\* an event becomes ready on the queue whose udata names no completion
RaiseBare ==
    /\ CanRaise
    /\ SetStore(Stamp(Store, Ev("none", 0, "USER")))
    /\ UNCHANGED RaiseVars

PollAny == PollIn(BOOLEAN)

NextPoll ==
    \/ PollAny
    \/ RaiseBare
    \/ RaiseReceive
    \/ RaisePeerAborted
    \/ RaiseStreamShutdownComplete

SpecPoll == InitStream /\ [][NextPoll]_vars

(***************************************************************************)
(* The drive cycle as the host's threads run it, over one started stream.  *)
(***************************************************************************)
PollEnter == PollEnterIn(Threads, {U32(0, 1), UINT32_MAX})

NextDrive ==
    \/ PollEnter
    \/ KeventWait
    \/ PollFire
    \/ RaiseReceive

SpecDrive == InitStream /\ [][NextDrive]_vars

\* one thread, every value of WaitMsValues
PollEnterOne == PollEnterIn({1}, WaitMsValues)

NextBudget ==
    \/ PollEnterOne
    \/ KeventWait
    \/ PollFire
    \/ RaiseReceive

SpecBudget == InitStream /\ [][NextBudget]_vars

(***************************************************************************)
(* Failing operations: on an open bridge with one owned connection, the    *)
(* host creates a second connection, a listener and a stream and sends on  *)
(* the stream, and each engine call succeeds or fails.                     *)
(***************************************************************************)
InitFail ==
    /\ InitOpened
    /\ ret = Ret("start_connection", "Qtrue", 0)
    /\ conn = [c \in Conns |-> IF c = 1
                   THEN [h |-> "open", origin |-> "app", phase |-> "connected",
                         context |-> ConnCtxPtr(c)]
                   ELSE NoConn]
    /\ cctx = [c \in Conns |-> IF c = 1
                   THEN [NoConnCtx EXCEPT !.alloc = "live", !.connected = 1,
                                          !.client_obj = 1]
                   ELSE NoConnCtx]
    /\ gc = [c \in Conns |-> [regs |-> IF c = 1 THEN 1 ELSE 0, unregs |-> 0, frees |-> 0]]
    /\ strm = [s \in Streams |-> NoStream]
    /\ sctx = [s \in Streams |-> NoStreamCtx]

CreateConnectionAny == CreateConnectionIn({Qnil, 1}, BOOLEAN)
CreateListenerAny == CreateListenerIn(BOOLEAN)
OpenStreamAny == OpenStreamIn({"none", "StreamOpen", "StreamStart"})
SendStream == SendStreamIn(BOOLEAN, BOOLEAN)

NextFail ==
    \/ CreateConnectionAny
    \/ CreateListenerAny
    \/ OpenStreamAny
    \/ SendStream
    \/ RaiseSendComplete
    \/ PollOk

SpecFail == InitFail /\ [][NextFail]_vars

(***************************************************************************)
(* Destroying records: next to one owned connection the host creates,      *)
(* starts and closes a listener, the listener accepts or rejects a peer,   *)
(* the host opens a stream, and it closes connections with the descriptor  *)
(* it was given or with one whose connection handle is null.               *)
(***************************************************************************)
NullHandleDescriptors == {<<NULL, d[2]>> : d \in Descriptors}

CloseConnectionHandleAny == CloseConnectionHandleIn(Descriptors \cup NullHandleDescriptors)
RaiseNewConnectionAny == RaiseNewConnectionIn({FALSE}, BOOLEAN)

NextDestroy ==
    \/ CreateListener
    \/ StartListener
    \/ CloseListener
    \/ RaiseNewConnectionAny
    \/ OpenStreamAny
    \/ CloseConnectionHandleAny
    \/ PollOk

SpecDestroy == InitFail /\ [][NextDestroy]_vars

(***************************************************************************)
(* Allocation in callbacks: next to one owned connection a listener is     *)
(* created and started, and malloc succeeds or fails in the callbacks      *)
(* that allocate: NEW_CONNECTION, PEER_STREAM_STARTED and a final RECEIVE. *)
(***************************************************************************)
RaiseNewConnectionOom == RaiseNewConnectionIn(BOOLEAN, {FALSE})
RaisePeerStreamStartedAny == RaisePeerStreamStartedIn(BOOLEAN)

NextAlloc ==
    \/ CreateListener
    \/ StartListener
    \/ RaiseNewConnectionOom
    \/ RaisePeerStreamStartedAny
    \/ RaiseReceiveAny
    \/ PollOk

SpecAlloc == InitFail /\ [][NextAlloc]_vars

(***************************************************************************)
(* Routing: an application connection owned by client_obj and a connection *)
(* the listener accepted, both connected, on an open bridge.  InitRouting  *)
(* is the state after open, create_listener, start_listener,               *)
(* create_connection(client_obj), start_connection, and NEW_CONNECTION and *)
(* the two CONNECTED events driven, with the deliveries those made.        *)
(***************************************************************************)
RoutingConn(c) ==
    IF c = 1 THEN [h |-> "open", origin |-> "app", phase |-> "connected",
                         context |-> ConnCtxPtr(c)]
    ELSE IF c = 2 THEN [h |-> "open", origin |-> "listener", phase |-> "connected",
                        context |-> ConnCtxPtr(c)]
    ELSE NoConn

RoutingCtx(c, client_obj) ==
    IF c = 1 THEN [NoConnCtx EXCEPT !.alloc = "live", !.connected = 1,
                                    !.client_obj = client_obj]
    ELSE IF c = 2 THEN [NoConnCtx EXCEPT !.alloc = "live", !.connected = 1]
    ELSE NoConnCtx

RoutingGc ==
    [c \in Conns |-> [regs |-> IF c = 1 THEN 1 ELSE 0, unregs |-> 0, frees |-> 0]]

\* the deliveries the two CONNECTED events made
RoutingLog(client_obj) ==
    LET st0 == [cctx |-> [c \in Conns |-> RoutingCtx(c, client_obj)],
                sctx |-> [s \in Streams |-> NoStreamCtx],
                gc |-> RoutingGc,
                log |-> <<>>]
        st1 == dispatch_to_ruby(st0, ConnHandle(1), ConnCtxPtr(1), client_obj,
                   "CONNECTION_ESTABLISHED", 0, WordBytes(ConnHandle(1)),
                   [Ev("conn", 1, "CONNECTED") EXCEPT !.seq = -1])
        st2 == dispatch_to_ruby(st1, ConnHandle(2), ConnCtxPtr(2), Qnil,
                   "CONNECTION_ESTABLISHED", 0, WordBytes(ConnHandle(2)),
                   Ev("conn", 2, "CONNECTED"))
    IN st2.log

InitRouting ==
    /\ MsQuic = 1 /\ EventQ = 1 /\ ExecContext = 1 /\ Registration = 1
    /\ apiRefs = 1 /\ openFds = {1} /\ liveExecs = {1} /\ liveRegs = {1}
    /\ acquired = <<"MsQuic", "EventQ", "ExecContext", "Registration">>
    /\ released = <<>>
    /\ wait = NoWait
    /\ drive = NoDrive
    /\ destroyed = {}
    /\ refused = {}
    /\ ret = Ret("start_connection", "Qtrue", 0)
    /\ lst = [h |-> "open", started |-> TRUE]
    /\ lctx = [NoListenerCtx EXCEPT !.alloc = "live"]
    /\ strm = [s \in Streams |-> NoStream]
    /\ sctx = [s \in Streams |-> NoStreamCtx]
    /\ ready = <<>>
    /\ raised = 0
    /\ \E client_obj \in Owners :
          /\ conn = [c \in Conns |-> RoutingConn(c)]
          /\ cctx = [c \in Conns |-> RoutingCtx(c, client_obj)]
          /\ gc = RoutingGc
          /\ log = RoutingLog(client_obj)

NextRouting ==
    \/ PollOk
    \/ OpenStream
    \/ CloseConnectionHandle
    \/ RaisePeerStreamStarted
    \/ RaiseReceive
    \/ RaisePeerAborted
    \/ RaiseStreamShutdownComplete
    \/ RaiseShutdownByTransport
    \/ RaiseShutdownByPeer
    \/ RaiseConnShutdownComplete

SpecRouting == InitRouting /\ [][NextRouting]_vars

(***************************************************************************)
(* C5.  Opening the bridge twice in a row without closing is idempotent:   *)
(* an open that directly follows a successful open returns success and     *)
(* changes none of the API table, the readiness queue, the execution       *)
(* context or the registration, nor what the engine and the OS hold.       *)
(***************************************************************************)
C5_SecondOpenIsNoOp ==
    [][(ret.op = "open" /\ ret.value = "Qtrue" /\ ret'.op = "open")
        => (ret'.value = "Qtrue" /\ UNCHANGED <<bridgeVars, engineBridgeVars>>)]_vars

\* an open has returned success on the already-initialized path
C5_Witness ==
    ret.op = "open" /\ ret.value = "Qtrue" /\ acquired = <<>> /\ MsQuic # NULL

(***************************************************************************)
(* C7.  If a step of quicsilver_open fails, open raises and leaves no      *)
(* partial state: the API table, the readiness queue, the execution        *)
(* context and the registration all have their closed initial values, and  *)
(* what the call had acquired was released in reverse order.               *)
(***************************************************************************)
C7_FailedOpenLeavesNothing ==
    (ret.op = "open" /\ ret.value = "raise")
        => /\ MsQuic = NULL
           /\ EventQ = NoEventQ
           /\ ExecContext = NULL
           /\ Registration = NULL
           /\ released = Reverse(acquired)

(***************************************************************************)
(* C8.  The registration, the execution context and the readiness queue    *)
(* are torn down at bridge close: after close none of the three is live,   *)
(* and at most one execution context and one readiness queue are live at   *)
(* any time.                                                               *)
(***************************************************************************)
C8_TornDownAtClose ==
    /\ ret.op = "close" =>
          (Registration = NULL /\ ExecContext = NULL /\ EventQ = NoEventQ)
    /\ Cardinality(openFds) <= 1
    /\ Cardinality(liveExecs) <= 1
    /\ Cardinality(liveRegs) <= 1

C6_OneReleaseOneFree ==
    \A c \in Conns : gc[c].frees <= 1 /\ gc[c].unregs <= 1

(***************************************************************************)
(* C9.  The Connection Context of a connection accepted by the listener    *)
(* has no owner; a CONNECTED raised on it is delivered exactly once, as    *)
(* CONNECTION_ESTABLISHED to the server handler, with the descriptor       *)
(* [connection handle, context pointer] of that connection; open_stream    *)
(* on the descriptor opens a stream of the same connection.                *)
(***************************************************************************)
Established(c) ==
    {i \in 1..Len(log) : log[i].type = "CONNECTION_ESTABLISHED"
                          /\ log[i].kind = "conn" /\ log[i].id = c}

C9_AcceptedConnectionEstablished ==
    \A c \in Conns :
        conn[c].origin = "listener" =>
            /\ cctx[c].alloc = "live" => cctx[c].client_obj = Qnil
            /\ Cardinality(Established(c)) <= 1
            /\ cctx[c].alloc = "live" /\ cctx[c].connected = 1
                   => Cardinality(Established(c)) = 1
            /\ \A i \in Established(c) :
                  /\ log[i].dest = "server"
                  /\ log[i].desc = <<ConnHandle(c), ConnCtxPtr(c)>>
                  /\ (MsQuic # NULL /\ conn[c].h = "open" /\ FreshStreams # {}) =>
                        LET s == Lowest(FreshStreams)
                            st == quicsilver_open_stream(Store, s, log[i].desc, "none")
                        IN /\ st.value = "handle"
                           /\ st.strm[s].h = "open" /\ st.strm[s].conn = c
                           /\ st.sctx[s].connection_ctx = ConnCtxPtr(c)
                           /\ st.sctx[s].client_obj = Qnil

\* the server handler was given the descriptor of an accepted connection
\* and a reply stream was opened with it
C9_Witness ==
    \E c \in Conns, s \in Streams :
        /\ conn[c].origin = "listener" /\ cctx[c].connected = 1
        /\ Established(c) # {}
        /\ strm[s].origin = "app" /\ strm[s].h = "open" /\ strm[s].conn = c
        /\ sctx[s].connection_ctx = ConnCtxPtr(c)

(***************************************************************************)
(* C2.  For a single connection handle, and likewise a single stream       *)
(* handle, the Dispatcher receives the events in the order the engine      *)
(* raised them on that handle: the deliveries of one handle are in         *)
(* increasing order of raising, and every event of the handle still        *)
(* waiting was raised after all that were delivered.                       *)
(***************************************************************************)
SameHandle(a, b) == a.kind = b.kind /\ a.id = b.id

C2_PerHandleOrder ==
    /\ \A i, j \in 1..Len(log) :
          (i < j /\ SameHandle(log[i], log[j])) => log[i].seq < log[j].seq
    /\ \A i \in 1..Len(log), k \in 1..Len(ready) :
          SameHandle(log[i], ready[k]) => log[i].seq < ready[k].seq

\* one drive cycle fired two completions of the same stream and both were
\* delivered, after an event of the connection
C2_Witness ==
    /\ ret.op = "poll" /\ ret.n = 2
    /\ \E i, j \in 1..Len(log) :
          /\ i < j
          /\ log[i].kind = "stream" /\ log[j].kind = "stream" /\ log[i].id = log[j].id
          /\ log[i].seq + 1 = log[j].seq

(***************************************************************************)
(* C3.  wait_for_connection with timeout T makes at most ceil(T/10) inline *)
(* drive cycles (none when T <= 0), and when no event was ever raised it   *)
(* returns the timed-out result.                                           *)
(***************************************************************************)
CeilTenth(T) == IF T <= 0 THEN 0 ELSE (T - 1) \div SleepInterval + 1

C3_WaitBounded ==
    /\ wait.pc # "idle" => wait.drives <= CeilTenth(wait.timeout)
    /\ (wait.pc = "done" /\ raised = 0) => wait.result.kind = "timeout"

(***************************************************************************)
(* C4.  When wait_for_connection returns, it returns (it does not raise)   *)
(* the value the context's flags determine: the connected result when      *)
(* connected is set, the error result with the recorded status and code    *)
(* when failed is set and connected is not, the timed-out result when      *)
(* neither is set.                                                         *)
(***************************************************************************)
C4_ResultFromFlags ==
    [][(wait.pc = "loop" /\ wait'.pc = "done") =>
          LET ctx == cctx'[ConnOfCtxPtr(wait'.ctx)] IN
          /\ ret'.op = "wait_for_connection"
          /\ ret'.value = wait'.result.kind
          /\ ret'.value # "raise"
          /\ wait'.result =
                IF ctx.connected # 0
                THEN [kind |-> "connected", status |-> 0, code |-> 0]
                ELSE IF ctx.failed # 0
                THEN [kind |-> "error", status |-> ctx.error_status,
                      code |-> ctx.error_code]
                ELSE [kind |-> "timeout", status |-> 0, code |-> 0]]_vars

\* a call returned the error result with the status and code the transport
\* shutdown recorded, the flag having been set on the iteration that used up
\* the timeout
C4_Witness ==
    /\ wait.pc = "done" /\ wait.elapsed >= wait.timeout /\ wait.drives >= 1
    /\ wait.result = [kind |-> "error", status |-> 1, code |-> 7]
    /\ ret = Ret("wait_for_connection", "error", 0)

(***************************************************************************)
(* C10.  For a stream whose RECEIVE events have all been delivered to the  *)
(* callback, the last of them final: the Dispatcher was given one RECEIVE  *)
(* per non-final event, carrying the event's bytes, and one RECEIVE_FIN,   *)
(* carrying the stream handle's bytes followed by the final event's bytes. *)
(***************************************************************************)
RECURSIVE ReceiveLog(_, _)
ReceiveLog(l, s) ==
    IF l = <<>> THEN <<>>
    ELSE LET e == Head(l) IN
         IF e.kind = "stream" /\ e.id = s /\ e.type \in {"RECEIVE", "RECEIVE_FIN"}
         THEN <<e>> \o ReceiveLog(Tail(l), s)
         ELSE ReceiveLog(Tail(l), s)

C10_OneFinalWithHandlePrefix ==
    \A s \in Streams :
        ( /\ strm[s].rx # <<>> /\ strm[s].rx[Len(strm[s].rx)].fin
          /\ sctx[s].client_obj = Qnil \/ RubyType(sctx[s].client_obj) = "T_OBJECT" )
        => LET rl == ReceiveLog(log, s) IN
           /\ Len(rl) = Len(strm[s].rx)
           /\ \A k \in 1..Len(rl) :
                 /\ rl[k].type = IF strm[s].rx[k].fin THEN "RECEIVE_FIN" ELSE "RECEIVE"
                 /\ rl[k].data = IF strm[s].rx[k].fin
                                  THEN WordBytes(StreamHandle(s)) \o strm[s].rx[k].bytes
                                  ELSE strm[s].rx[k].bytes

(***************************************************************************)
(* C11.  For each PEER_SEND_ABORTED with error code c passed to a stream's *)
(* callback exactly one STREAM_RESET is delivered, carrying the bytes of   *)
(* c; the stream context's shutdown flag is set exactly when               *)
(* SHUTDOWN_COMPLETE has been passed to the callback, and once set it      *)
(* stays set.                                                              *)
(***************************************************************************)
Deliverable(client_obj) == client_obj = Qnil \/ RubyType(client_obj) = "T_OBJECT"

ResetLog(s) ==
    SelectSeq(log, LAMBDA e : e.kind = "stream" /\ e.id = s /\ e.type = "STREAM_RESET")
ResetsSeen(s) == SelectSeq(strm[s].seen, LAMBDA e : e.type = "PEER_SEND_ABORTED")
CompleteSeen(s) ==
    \E k \in 1..Len(strm[s].seen) : strm[s].seen[k].type = "SHUTDOWN_COMPLETE"

C11_ResetOnceShutdownLatched ==
    /\ [](\A s \in Streams :
            sctx[s].alloc = "live" =>
              /\ Deliverable(sctx[s].client_obj) =>
                    /\ Len(ResetLog(s)) = Len(ResetsSeen(s))
                    /\ \A k \in 1..Len(ResetLog(s)) :
                          /\ ResetLog(s)[k].data = WordBytes(ResetsSeen(s)[k].code)
                          /\ ResetLog(s)[k].stream_id = StreamId(s)
              /\ (sctx[s].shutdown = 1) <=> CompleteSeen(s))
    /\ [][\A s \in Streams : sctx[s].shutdown = 1 => sctx'[s].shutdown = 1]_vars

\* a reset with code 7 was delivered and the stream's shutdown then completed
C11_Witness ==
    \E s \in Streams :
        /\ Deliverable(sctx[s].client_obj)
        /\ strm[s].seen = <<[type |-> "PEER_SEND_ABORTED", code |-> 7],
                            [type |-> "SHUTDOWN_COMPLETE", code |-> 0]>>
        /\ Len(ResetLog(s)) = 1 /\ ResetLog(s)[1].data = WordBytes(7)
        /\ sctx[s].shutdown = 1

(***************************************************************************)
(* C12.  Every event handed to the dispatcher is delivered to at most one  *)
(* destination, and the destination depends on the owner reference of the  *)
(* record the event came through and on nothing else: the server handler,  *)
(* with the connection's descriptor, when the owner reference is nil, and  *)
(* the owner's handler, with no descriptor, when it is present.  No event  *)
(* is delivered twice, and an event of a record that has an owner never    *)
(* reaches the server handler.                                             *)
(***************************************************************************)
\* the owner reference of the record the delivery was routed through
OwnerOf(d) ==
    IF d.kind = "stream" THEN sctx[d.id].client_obj ELSE cctx[d.id].client_obj

\* the connection the delivery belongs to
ConnOf(d) ==
    IF d.kind = "stream" THEN strm[d.id].conn ELSE d.id

C12_OneDestinationByOwner ==
    /\ \A i \in 1..Len(log) :
          /\ log[i].owner = OwnerOf(log[i])
          /\ (log[i].dest = "server") <=> (OwnerOf(log[i]) = Qnil)
          /\ (log[i].dest = "owner") <=> (OwnerOf(log[i]) # Qnil)
          /\ log[i].dest = "server" =>
                log[i].desc = <<ConnHandle(ConnOf(log[i])), ConnCtxPtr(ConnOf(log[i]))>>
          /\ log[i].dest = "owner" => log[i].desc = <<>>
    /\ \A i, j \in 1..Len(log) : log[i].seq = log[j].seq => i = j

\* a stream event went to the server handler and one to an owner's handler
C12_Witness ==
    /\ \E i \in 1..Len(log) :
          log[i].kind = "stream" /\ log[i].dest = "server" /\ log[i].type = "RECEIVE"
    /\ \E i \in 1..Len(log) :
          log[i].kind = "conn" /\ log[i].dest = "owner"
          /\ log[i].type = "CONNECTION_CLOSED"

Taken == SubSeq(ready, 1, Len(ready) - Len(ready'))

C14_CountIsCompletionsFired ==
    [][(raised' = raised /\ ret'.op = "poll") =>
          /\ ret'.n >= 0
          /\ ret'.n = Len(SelectSeq(Taken, HasCompletion))]_vars

(***************************************************************************)
(* C15.  The readiness wait of every drive cycle is bounded.  The budget   *)
(* is the default bound, 100 ms, when the engine reports no pending        *)
(* deadline (UINT32_MAX), and the smaller of the engine's deadline and the *)
(* default bound otherwise; whatever the engine reports, the budget is in  *)
(* 0..100 ms, and the timeout handed to kevent is that budget.             *)
(***************************************************************************)
\* the engine's deadline is at most n milliseconds
AtMost(wait_ms, n) == wait_ms.hi = 0 /\ wait_ms.lo <= n

C15_WaitBudgetBounded ==
    \A t \in Threads :
        drive[t].pc # "idle" =>
            LET wait_ms == drive[t].wait_ms
                budget == drive[t].actual_wait
                args == drive[t].args
            IN /\ budget \in 0..DefaultWaitMs
               /\ wait_ms = UINT32_MAX => budget = DefaultWaitMs
               /\ wait_ms # UINT32_MAX =>
                     budget = IF AtMost(wait_ms, DefaultWaitMs)
                              THEN wait_ms.lo ELSE DefaultWaitMs
               /\ args.tv_nsec % 1000000 = 0
               /\ args.tv_sec * 1000 + args.tv_nsec \div 1000000 = budget

\* a drive cycle waited with a deadline far beyond the bound, capped to it
C15_Witness ==
    \E t \in Threads :
        /\ drive[t].pc = "fire"
        /\ drive[t].wait_ms = U32(1, 0)
        /\ drive[t].actual_wait = DefaultWaitMs
        /\ drive[t].args.tv_nsec = 100000000

(***************************************************************************)
(* C16.  While a drive cycle is blocked in its readiness wait, with the    *)
(* GVL released, no second drive cycle starts: however the host's threads  *)
(* interleave their calls of poll, at most one call is between its timer   *)
(* poll and the end of its completion firing.                              *)
(***************************************************************************)
C16_OneDriveCycleAtATime ==
    Cardinality({t \in Threads : drive[t].pc # "idle"}) <= 1

(***************************************************************************)
(* C17.  A Context Record that holds an owner reference keeps the owner    *)
(* pinned from its creation to its destruction, and pins and releases      *)
(* match: a live ConnectionContext with an owner has exactly one           *)
(* registration in force and never more than one release, and the owner a  *)
(* live StreamContext holds a copy of is pinned, also after the parent     *)
(* connection was closed.                                                  *)
(***************************************************************************)
\* some registration of the owner with the collector is in force
Pinned(owner) ==
    \E c \in Conns : cctx[c].client_obj = owner /\ gc[c].regs > 0

StreamOwnersPinned ==
    \A s \in Streams :
        (sctx[s].alloc = "live" /\ sctx[s].client_obj # Qnil) =>
            Pinned(sctx[s].client_obj)

C17_OwnerPinnedWhileHeld ==
    /\ \A c \in Conns :
          /\ (cctx[c].alloc = "live" /\ cctx[c].client_obj # Qnil) => gc[c].regs = 1
          /\ cctx[c].alloc # "live" => gc[c].regs = 0
          /\ gc[c].unregs <= 1
    /\ StreamOwnersPinned

(***************************************************************************)
(* C18.  A connection fault the engine signals is never thrown into the    *)
(* host: the drive cycle that fires it returns its count, the callback     *)
(* records it in the ConnectionContext (connected 0, failed 1, the status  *)
(* and error code of the event; status success for a peer's shutdown) and  *)
(* delivers nothing for it.  The host hears of it as one CONNECTION_CLOSED *)
(* carrying the connection handle, delivered when the engine completes the *)
(* shutdown and not before.                                                *)
(***************************************************************************)
ClosedLog(c) ==
    SelectSeq(log, LAMBDA e : e.kind = "conn" /\ e.id = c /\ e.type = "CONNECTION_CLOSED")

FaultRecorded(ev) ==
    LET ctx == cctx'[ev.id] IN
    /\ ctx.connected = 0 /\ ctx.failed = 1
    /\ ctx.error_code = ev.code
    /\ ctx.error_status = IF ev.type = "SHUTDOWN_INITIATED_BY_TRANSPORT"
                          THEN ev.status ELSE QUIC_STATUS_SUCCESS
    /\ \A j \in 1..Len(log') : log'[j].seq # ev.seq

C18_FaultRecordedThenClosed ==
    /\ [](\A c \in Conns :
            /\ Len(ClosedLog(c)) <= 1
            /\ ClosedLog(c) # <<>> => conn[c].phase = "complete"
            /\ (conn[c].h = "closed" /\ Deliverable(cctx[c].client_obj)) =>
                  Len(ClosedLog(c)) = 1)
    /\ [][(raised' = raised /\ ret'.op = "poll") =>
            /\ ret'.value = "count"
            /\ \A i \in 1..Len(Taken) :
                  LET ev == Taken[i] IN
                  ev.kind = "conn" =>
                    /\ ev.type \in {"SHUTDOWN_INITIATED_BY_TRANSPORT",
                                    "SHUTDOWN_INITIATED_BY_PEER"} => FaultRecorded(ev)
                    /\ (ev.type = "SHUTDOWN_COMPLETE"
                        /\ Deliverable(cctx[ev.id].client_obj)) =>
                          /\ cctx'[ev.id].connected = 0
                          /\ \E j \in (Len(log) + 1)..Len(log') :
                                /\ log'[j].seq = ev.seq
                                /\ log'[j].type = "CONNECTION_CLOSED"
                                /\ log'[j].data = WordBytes(ConnHandle(ev.id))]_vars

\* a transport fault was recorded in a live record and, the shutdown
\* complete, reported to the owner as CONNECTION_CLOSED
C18_Witness ==
    \E c \in Conns :
        /\ cctx[c].alloc = "live" /\ cctx[c].client_obj # Qnil
        /\ cctx[c].failed = 1 /\ cctx[c].connected = 0
        /\ cctx[c].error_status = 1 /\ cctx[c].error_code = 7
        /\ Len(ClosedLog(c)) = 1
        /\ ret.op = "poll" /\ ret.value = "count"

(***************************************************************************)
(* C19.  When the engine call of a per-handle operation fails              *)
(* (ConnectionOpen, ListenerOpen, StreamOpen or StreamStart, StreamSend)   *)
(* the call raises at once; the record or buffer it had allocated is freed *)
(* exactly once and the registration of its owner, if it had one, is       *)
(* released; the bridge's process-wide state, the events pending and       *)
(* delivered, and every other Context Record and buffer are as before.     *)
(***************************************************************************)
\* the step is a per-handle operation that raised
RaisedNow ==
    /\ raised' = raised
    /\ ret'.value = "raise"
    /\ ret'.op \in {"create_connection", "create_listener", "open_stream", "send_stream"}

\* the records the step allocated
NewConnCtx == {c \in Conns : cctx[c].alloc = "none" /\ cctx'[c].alloc # "none"}
NewStreamCtx == {s \in Streams : sctx[s].alloc = "none" /\ sctx'[s].alloc # "none"}
NewBuffers(s) == (Len(strm[s].tx) + 1)..Len(strm'[s].tx)

C19_FailedOperationCleansUp ==
    [][RaisedNow =>
        /\ UNCHANGED <<bridgeVars, engineBridgeVars, ready, log, conn, lst>>
        /\ \A c \in Conns :
              IF c \in NewConnCtx
              THEN /\ ret'.op = "create_connection"
                   /\ cctx'[c].alloc = "freed"
                   /\ gc'[c] = [regs |-> 0, frees |-> 1,
                                unregs |-> IF cctx'[c].client_obj # Qnil THEN 1 ELSE 0]
              ELSE cctx'[c] = cctx[c] /\ gc'[c] = gc[c]
        /\ \A s \in Streams :
              /\ IF s \in NewStreamCtx
                 THEN /\ ret'.op = "open_stream"
                      /\ sctx'[s].alloc = "freed"
                      /\ strm'[s].h # "open"
                 ELSE /\ sctx'[s] = sctx[s]
                      /\ [strm'[s] EXCEPT !.tx = <<>>] = [strm[s] EXCEPT !.tx = <<>>]
              /\ SubSeq(strm'[s].tx, 1, Len(strm[s].tx)) = strm[s].tx
              /\ \A b \in NewBuffers(s) :
                    /\ ret'.op = "send_stream"
                    /\ strm'[s].tx[b] = [alloc |-> "freed", frees |-> 1]
        /\ IF lctx.alloc = "none" /\ lctx'.alloc # "none"
           THEN ret'.op = "create_listener" /\ lctx'.alloc = "freed"
           ELSE lctx' = lctx
        /\ ret'.op = "create_connection" => NewConnCtx # {}
        /\ ret'.op = "create_listener" => lctx'.alloc = "freed"
        /\ ret'.op = "open_stream" => NewStreamCtx # {}]_vars

\* a ConnectionOpen for an owned connection, a ListenerOpen and a StreamSend
\* have failed next to a live owned connection and a buffer being sent
C19_Witness ==
    /\ ret.value = "raise"
    /\ cctx[1].alloc = "live" /\ gc[1].regs = 1
    /\ \E c \in Conns :
          cctx[c].alloc = "freed" /\ cctx[c].client_obj # Qnil /\ gc[c].unregs = 1
    /\ lctx.alloc = "freed"
    /\ \E s \in Streams :
          /\ sctx[s].alloc = "live"
          /\ \E a, b \in 1..Len(strm[s].tx) :
                /\ strm[s].tx[a] = [alloc |-> "freed", frees |-> 1]
                /\ strm[s].tx[b].alloc \in {"sent", "completing"}

(***************************************************************************)
(* C20.  A Context Record is destroyed only after the native close of its  *)
(* handle was issued, on every path that destroys one: whenever free is    *)
(* called on a record whose handle exists, the handle is closed already.   *)
(***************************************************************************)
C20_ClosedBeforeDestroyed ==
    \A d \in destroyed : d.h \in {"none", "closed"}

(***************************************************************************)
(* C21.  An allocation failure inside a callback never crashes the process *)
(* and is never reported to the engine: the callback whose malloc failed   *)
(* drops the event or record and returns QUIC_STATUS_SUCCESS.              *)
(***************************************************************************)
C21_AllocationFailureAbsorbed ==
    /\ Running
    /\ \A r \in refused : ~r.oom

(***************************************************************************)
(* C22.  The StreamContext a successful open_stream allocated is freed     *)
(* once, when the stream's handle is closed: after the stream has reached  *)
(* SHUTDOWN_COMPLETE and its connection has been closed, which is the last *)
(* point at which the file touches the stream, its record is no longer     *)
(* allocated.                                                              *)
(***************************************************************************)
C22_StreamContextFreedAtClose ==
    \A s \in Streams :
        ( /\ strm[s].origin = "app"
          /\ sctx[s].shutdown = 1
          /\ conn[strm[s].conn].h = "closed" ) =>
            sctx[s].alloc # "live"

(***************************************************************************)
(* C23.  The owner asymmetry: a ConnectionContext the listener allocated   *)
(* at accept has client_obj = Qnil, a ConnectionContext allocated by       *)
(* create_connection has a client_obj other than Qnil, and a StreamContext *)
(* carries the client_obj its parent ConnectionContext was created with.   *)
(***************************************************************************)
AcceptedOwnerAbsent ==
    \A c \in Conns :
        (cctx[c].alloc = "live" /\ conn[c].origin = "listener") => cctx[c].client_obj = Qnil

StreamOwnerIsParents ==
    \A s \in Streams :
        (sctx[s].alloc = "live" /\ cctx[strm[s].conn].alloc = "live") =>
            sctx[s].client_obj = cctx[strm[s].conn].client_obj

C23_OwnerAsymmetry ==
    /\ AcceptedOwnerAbsent
    /\ StreamOwnerIsParents
    /\ \A c \in Conns :
           (cctx[c].alloc = "live" /\ conn[c].origin = "app") => cctx[c].client_obj # Qnil

(***************************************************************************)
(* C24.  wait_for_connection makes progress by redriving: an iteration of  *)
(* its loop is one inline drive cycle, and when the CONNECTED or shutdown  *)
(* completion of the awaited connection is ready before an iteration, the  *)
(* iteration sets the flag; a call that ends with a flag set returns the   *)
(* connected or the error result, not the timed-out one.                   *)
(***************************************************************************)
AwaitedTypes ==
    {"CONNECTED", "SHUTDOWN_INITIATED_BY_TRANSPORT", "SHUTDOWN_INITIATED_BY_PEER"}

AwaitedReady ==
    \E i \in 1..Len(ready) :
        /\ ready[i].kind = "conn" /\ ready[i].id = ConnOfCtxPtr(wait.ctx)
        /\ ready[i].type \in AwaitedTypes

C24_WaitObservesReadyCompletion ==
    [][ /\ (wait.pc = "loop" /\ wait'.drives = wait.drives + 1 /\ AwaitedReady) =>
              LET ctx == cctx'[ConnOfCtxPtr(wait.ctx)]
              IN ctx.connected = 1 \/ ctx.failed = 1
        /\ (wait.pc = "loop" /\ wait'.pc = "done") =>
              LET ctx == cctx[ConnOfCtxPtr(wait.ctx)]
              IN (ctx.connected = 1 \/ ctx.failed = 1) => wait'.result.kind # "timeout"
      ]_vars

(***************************************************************************)
(* C25.  The connected and failed flags of an allocated ConnectionContext  *)
(* are never both set, and in every reachable state the callback would     *)
(* move them as follows: CONNECTED sets connected and clears failed, a     *)
(* shutdown initiated by the transport or by the peer clears connected and *)
(* sets failed, SHUTDOWN_COMPLETE clears connected and leaves failed.      *)
(***************************************************************************)
FlagsAfter(c, type) ==
    ConnectionCallback(Store, c, ConnCtxPtr(c), Ev("conn", c, type)).cctx[c]

C25_FlagsExclusive ==
    \A c \in Conns :
        cctx[c].alloc = "live" =>
            /\ ~(cctx[c].connected = 1 /\ cctx[c].failed = 1)
            /\ FlagsAfter(c, "CONNECTED").connected = 1
            /\ FlagsAfter(c, "CONNECTED").failed = 0
            /\ \A type \in {"SHUTDOWN_INITIATED_BY_TRANSPORT", "SHUTDOWN_INITIATED_BY_PEER"} :
                   FlagsAfter(c, type).connected = 0 /\ FlagsAfter(c, type).failed = 1
            /\ FlagsAfter(c, "SHUTDOWN_COMPLETE").connected = 0
            /\ FlagsAfter(c, "SHUTDOWN_COMPLETE").failed = cctx[c].failed

\* a connection was established, then shut down by the transport, and its
\* SHUTDOWN_COMPLETE has been delivered: failed is still set, connected is not
C25_Witness ==
    \E c \in Conns :
        /\ cctx[c].alloc = "live" /\ conn[c].phase = "complete"
        /\ cctx[c].failed = 1 /\ cctx[c].connected = 0
        /\ \E i \in 1..Len(log) :
              ConnOf(log[i]) = c /\ log[i].type = "CONNECTION_ESTABLISHED"

(***************************************************************************)
(* C26.  A drive cycle calls into the engine only while the bridge is      *)
(* open: whenever ExecContext is not NULL the API table MsQuic is not NULL *)
(* either, so no poll and no inline drive goes through a NULL API table.   *)
(***************************************************************************)
C26_DriveOnlyWhenOpen ==
    /\ ExecContext # NULL => MsQuic # NULL
    /\ ret.value # "SIGSEGV"

(***************************************************************************)
(* Sending: next to one connected, owned connection the host opens a       *)
(* stream or the peer starts one (the StreamContext's malloc may fail),    *)
(* the peer's stream delivers its final data, the host sends on the        *)
(* streams whose handle it has, the engine completes sends and shuts the   *)
(* stream down, and the host closes the connection.                        *)
(***************************************************************************)
NextSend ==
    \/ OpenStream
    \/ RaisePeerStreamStartedAny
    \/ RaiseReceive
    \/ SendStream
    \/ RaiseSendComplete
    \/ RaiseStreamShutdownComplete
    \/ CloseConnectionHandle
    \/ PollOk

SpecSend == InitFail /\ [][NextSend]_vars

(***************************************************************************)
(* C27.  Every send buffer send_stream allocated is freed exactly once: by *)
(* send_stream when StreamSend fails, otherwise by StreamCallback on the   *)
(* buffer's SEND_COMPLETE.  No buffer is freed twice, and a buffer that is *)
(* not freed is one the engine still holds on a stream that is not shut    *)
(* down; no buffer belongs to a stream that has no StreamContext.          *)
(***************************************************************************)
C27_SendBufferFreedOnce ==
    /\ [](\A s \in Streams : \A b \in 1..Len(strm[s].tx) :
            LET buf == strm[s].tx[b] IN
            /\ buf.frees <= 1
            /\ buf.alloc = "freed" <=> buf.frees = 1
            /\ buf.alloc # "freed" =>
                  /\ buf.alloc \in {"sent", "completing"}
                  /\ sctx[s].alloc = "live" /\ sctx[s].shutdown = 0
                  /\ conn[strm[s].conn].h = "open"
            /\ sctx[s].alloc = "live")
    /\ [][\A s \in Streams : \A b \in 1..Len(strm'[s].tx) :
            IF b > Len(strm[s].tx)
            THEN /\ ret'.op = "send_stream"
                 /\ strm'[s].tx[b].alloc = "freed" <=> ret'.value = "raise"
            ELSE (strm[s].tx[b].alloc # "freed" /\ strm'[s].tx[b].alloc = "freed") =>
                    \E i \in 1..Len(strm'[s].seen) :
                        strm'[s].seen[i].type = "SEND_COMPLETE"]_vars

\* on a stream the peer started, one send failed and was freed by
\* send_stream, another was accepted and freed by its SEND_COMPLETE, and the
\* connection has been closed
C27_Witness ==
    \E s \in Streams :
        /\ strm[s].origin = "peer"
        /\ Len(strm[s].tx) = 2
        /\ \A b \in 1..2 : strm[s].tx[b] = [alloc |-> "freed", frees |-> 1]
        /\ Len(strm[s].seen) >= 1 /\ strm[s].seen[1].type = "SEND_COMPLETE"
        /\ ret.op = "close_connection_handle"

(***************************************************************************)
(* C28.  On a rejected accept (ConnectionSetConfiguration failed) the      *)
(* ConnectionContext is freed exactly once, the engine is not left with a  *)
(* callback registered on the freed record, and no callback of the         *)
(* rejected connection ran on it afterwards.                               *)
(***************************************************************************)
RejectedAccepts == {c \in Conns : conn[c].h = "rejected" /\ cctx[c].alloc # "none"}

C28_RejectedAcceptLeavesNoCallback ==
    \A c \in RejectedAccepts :
        /\ cctx[c].alloc = "freed" /\ gc[c].frees = 1
        /\ conn[c].context = NULL
        /\ \A i \in 1..Len(log) : ConnOf(log[i]) # c

(***************************************************************************)
(* C29.  The stream callback drops no received bytes: for a stream whose   *)
(* owner can be delivered to, the bytes of the payloads delivered for its  *)
(* RECEIVE events (without the handle prefix of a final one) are, in       *)
(* order, the bytes of all the buffers of the events passed to the         *)
(* callback, and there are as many DATA_RECEIVED_FINAL deliveries as       *)
(* events carrying FIN, also for events with no buffer.                    *)
(***************************************************************************)
Payload(e) ==
    IF e.type = "RECEIVE_FIN" THEN SubSeq(e.data, SizeofHQUIC + 1, Len(e.data)) ELSE e.data

DeliveredBytes(s) ==
    LET rl == ReceiveLog(log, s) IN Flatten([k \in 1..Len(rl) |-> Payload(rl[k])])

ReceivedBytes(s) ==
    Flatten([k \in 1..Len(strm[s].rx) |-> strm[s].rx[k].bytes])

C29_NoReceivedBytesDropped ==
    \A s \in Streams :
        (sctx[s].alloc = "live" /\ Deliverable(sctx[s].client_obj)) =>
            /\ DeliveredBytes(s) = ReceivedBytes(s)
            /\ Cardinality({k \in 1..Len(ReceiveLog(log, s)) :
                                ReceiveLog(log, s)[k].type = "RECEIVE_FIN"})
                 = Cardinality({k \in 1..Len(strm[s].rx) : strm[s].rx[k].fin})

(***************************************************************************)
(* Closing the bridge with handles around: next to one connected, owned    *)
(* connection the host creates, starts and closes a listener, opens a      *)
(* stream, closes the connection and polls; the engine shuts the           *)
(* connection down.  quicsilver_close (lines 730-744) is two steps here:   *)
(* the call is entered, and it returns - RegistrationClose (line 736)      *)
(* returns once every child handle is closed.  The call keeps the          *)
(* interpreter lock, so between the two steps no other operation of the    *)
(* host runs and nothing drives the engine.                                *)
(***************************************************************************)
Closing == ret = Ret("close", "running", 0)

CloseCall ==
    /\ Running /\ ~Closing
    /\ ret' = Ret("close", "running", 0)
    /\ UNCHANGED <<drive, bridgeVars, engineBridgeVars, acquired, released, otherVars>>

CloseReturn ==
    /\ Closing
    /\ (MsQuic # NULL /\ Registration # NULL) => NoOpenHandles
    /\ SetBridge(quicsilver_close(BridgeState), "close")
    /\ UNCHANGED otherVars

NextClose ==
    \/ ~Closing /\ CreateListener
    \/ ~Closing /\ StartListener
    \/ ~Closing /\ CloseListener
    \/ ~Closing /\ OpenStream
    \/ ~Closing /\ CloseConnectionHandle
    \/ ~Closing /\ PollOk
    \/ RaiseShutdownByPeer
    \/ RaiseConnShutdownComplete
    \/ CloseCall
    \/ CloseReturn

\* a RegistrationClose whose child handles are all closed does return
SpecClose == InitFail /\ [][NextClose]_vars /\ WF_vars(CloseReturn)

(***************************************************************************)
(* C30.  Bridge close terminates: a call of quicsilver_close eventually    *)
(* returns, whatever connections, streams or listeners are open or in      *)
(* shutdown when it is made.                                               *)
(***************************************************************************)
C30_CloseTerminates ==
    Closing ~> (ret.op = "close" /\ ret.value = "Qnil")

================================================================================
